---------------------------- MODULE Spec2Model ----------------------------
(* State-machine model of the UKRI / NIHR scrapers.                        *)
(*                                                                         *)
(*  Spec        the long-running ingestion                                 *)
(*              (rag-processing/ukri-for-rag-stage-1-capture.py, main),    *)
(*              with interrupts, crashes and re-invocations                *)
(*  CursorSpec  get_cursor / save_cursor on arbitrary cursor-file contents *)
(*  PoolSpec    the static-chunk thread pools of multithread_monolith.py    *)
(*              (run_search_to_excel), gtr_scraper.py                      *)
(*              (run_gtr_search_to_excel) and ukri_protocol_finder.py      *)
(*              (scrape_protocol_info_multithreaded, with its merge)       *)
(*  PartitionSpec  the split into chunks alone, for every thread count     *)
(*  QueueSpec   ukri_protocol_finder.scrape_protocol_info_driver_pool      *)
(*  MergeSpec   the merge of ukri_protocol_finder.run_search_to_excel      *)
(*  ExportSpec  fetch_all_hits and run_search_to_excel of the monolith     *)
(*  FilterSpec  the date filter and sort of run_search_to_excel alone      *)
(*  FormSpec    the input form of nihr_dialogue.py                         *)
(*  DateSpec    choose_best_date on every record of date fields            *)
(*  ProtocolSpec  the protocol sort of scrape_award_page                   *)
(*  StrategySpec  the extraction strategies of gtr scrape_project_page     *)
(*  CountSpec   the Investigator Counts sheet                              *)
(*  GtrBatchSpec  the gtr pool with one or two threads                     *)
(*  FetchSpec   fetch_all_hits and fetch_all_hits_gtr against any API      *)
(*  QueueFairSpec  the driver pool under fair scheduling                   *)
(*  DownloadSpec  ukri-for-rag-stage-2-pdf-download.py over several runs   *)
(*  LockSpec    the locked extend at the end of the finder's pool workers   *)
(*  RoleSpec    the role each person entry gets in scrape_project_page      *)
EXTENDS Integers, Sequences, FiniteSets, TLC

VARIABLES
    \* ---- stage-1 ingestion: the process -------------------------------
    pc,             \* position of main()
    runNo,          \* number of the current invocation
    driver,         \* "none" | "open" | "quit"
    current_offset, \* main's local current_offset
    records,        \* the batch returned by fetch_api_batch (stream indices)
    idx,            \* position of the for loop in records (1-based)
    found,          \* has_protocol of the item just checked
    outcome,        \* how the run ended: "" | "complete" | "paused"
    cursorRet,      \* what the last get_cursor call did: [raised, value]
    \* ---- stage-1 ingestion: the files and the remote stream -----------
    cursorExists,   \* os.path.exists(CURSOR_FILE)
    cursorFile,     \* content of CURSOR_FILE, a sequence of characters
    outputFile,     \* OUTPUT_FILE: the ids appended, in order
    protocolSet,    \* stream indices whose detail page has a protocol pdf
    \* ---- history variables (observations, never read by the program) --
    saveArgs,       \* arguments of the save_cursor calls of this run
    attempted,      \* records of the current batch check_for_protocol returned for
    reqs,           \* start offsets of the API requests of this run
    processed,      \* stream indices handed to check_for_protocol in this run
    persisted,      \* offset of the last completed save_cursor, -1 if the file holds none
    resumeFrom,     \* persisted, as it was when this invocation started
    lastSave,       \* [prev, arg]: get_cursor's value before the last save_cursor, its argument
    saveCut,        \* an interrupt or crash hit the last save_cursor
    intr,           \* [mid, offset, batch]: a KeyboardInterrupt that arrived mid-batch
    faults,         \* an API request or a page scrape has failed in this behaviour
    failedAt,       \* offset of the API request that failed in this run, -1 if none
    prevFailedAt,   \* failedAt of the invocation before this one
    \* ---- thread-pool pipelines -----------------------------------------
    variant,        \* "monolith" | "gtr" | "finder": which pipeline runs
    site,           \* which of the detail-page sets the site serves
    threads,        \* the threads / num_threads argument of the pipeline
    candidates,     \* the list handed to the pool (ids, in list order)
    chunks,         \* the slices submitted to the pool, in submission order
    poolPc,         \* "split" | "running" | "done" | "raised"
    wstate,         \* per chunk: "queued" | "running" | "done" | "failed"
    wpos,           \* per chunk: items of the batch the worker is through
    wresults,       \* per chunk: the worker's results list
    wfunded,        \* per chunk: the worker's local funded_value (-1: unbound)
    wdriver,        \* per chunk: "none" | "open" | "quit"
    wgap,           \* history, per chunk: seconds slept between the worker's last
                    \* two page fetches (-1: fewer than two fetches so far)
    collected,      \* chunks whose future as_completed has yielded
    enriched,       \* the list the main thread extends
    scrapeRaised,   \* history: ids whose page scrape raised
    max_rows,       \* finder: the cap on protocol-bearing rows
    protocol_rows,  \* finder: the list the workers extend under the lock
    lateStarts,     \* history: ids whose scrape began with max_rows already found
    task_queue,     \* driver pool: the records still in the Queue
    results,        \* driver pool: the list the workers extend under results_lock
    scrapeCount,    \* history, driver pool: per id, the scrapes made of it
    \* ---- merge of ukri_protocol_finder ---------------------------------
    all_records,      \* the filtered record list (Award IDs, in order)
    protocol_records, \* rows returned by the scraper: [aid, count]
    protocol_index,   \* the dict built from protocol_records
    enriched_records, \* the merged rows
    mergePc,          \* "index" | "merge" | "done"
    \* ---- bounded export: multithread_monolith.run_search_to_excel --------
    exPc,           \* "probe" | "page" | "broke" | "filter" | "pool" | "excel" |
                    \* "done" | "fetch_raised" | "pool_raised"
    nhits,          \* the nhits the API reports for the query
    served,         \* how many of them the API serves through paging
    max_records,    \* fetch_all_hits_gtr: its max_records argument
    page_size,      \* the page_size argument of fetch_all_hits
    dates,          \* choose_best_date of each record, as a day number (0: None)
    start_dt,       \* the date window of the export
    end_dt,
    total,          \* fetch_all_hits: total (-1 before the probe)
    start,          \* fetch_all_hits: start
    fetched,        \* fetch_all_hits: its local records list
    fetchRet,       \* what fetch_all_hits returned: [returned, records]
    ex_candidates,  \* run_search_to_excel: candidates
    sessions,       \* browser sessions created by the run
    output,         \* the Excel file has been written
    badStatus,      \* history: a request of this run got a non-2xx response
    pages,          \* history: [start, got] of every page request issued
                    \* (got: the items of the page, -1 when the request raised)
    \* ---- the input form: nihr_dialogue.get_scraper_inputs ----------------
    formOpen,         \* the window exists (root.destroy() not called)
    entry_terms,      \* text of the search-terms entry
    entry_rows,       \* text of the max-rows entry
    result_container, \* the list submit appends the configuration to
    errorShown,       \* the message of the last messagebox.showerror, "" if none
    \* ---- one call of a pure function ------------------------------------
    fn,             \* the function called, "" when none
    fnPc,           \* "off", "call" (about to run) or "returned"
    arg,            \* its arguments
    ret,            \* what it returned
    \* ---- stage-2 downloader: ukri-for-rag-stage-2-pdf-download.py ---------
    dlPc,           \* "off" | "line" (main is at a line of the input) | "done"
    dlRun,          \* number of the invocation of main()
    lines,          \* number of records in the input file, each with a protocol
    line_num,       \* the line main() is at
    files,          \* per record, the chunks of its file on disk (-1: no file)
    skips,          \* history: [run, id, size] of every "Already exists" skip
    \* ---- the result lock of the finder's pools ---------------------------
    lock,           \* the worker holding lock / results_lock, 0 when free
    wsnap           \* per worker, the shared list as its extend read it

stageVars == <<pc, runNo, driver, current_offset, records, idx, found, outcome,
               cursorRet, cursorExists, cursorFile, outputFile, protocolSet>>
histVars  == <<saveArgs, attempted, reqs, processed, persisted, resumeFrom,
               lastSave, saveCut, intr, faults, failedAt, prevFailedAt>>
queueVars == <<task_queue, results, scrapeCount>>
poolVars  == <<variant, site, threads, candidates, chunks, poolPc, wstate, wpos, wresults, wfunded,
               wdriver, wgap, collected, enriched, scrapeRaised, max_rows, protocol_rows,
               lateStarts, task_queue, results, scrapeCount>>
finderVars == <<max_rows, protocol_rows, lateStarts, queueVars>>
mergeVars == <<all_records, protocol_records, protocol_index, enriched_records, mergePc>>
exportVars == <<exPc, nhits, served, max_records, page_size, dates, start_dt, end_dt, total, start, fetched, fetchRet,
                ex_candidates, sessions, output, badStatus, pages>>
formVars == <<formOpen, entry_terms, entry_rows, result_container, errorShown>>
fnVars == <<fn, fnPc, arg, ret>>
downloadVars == <<dlPc, dlRun, lines, line_num, files, skips>>
lockVars == <<lock, wsnap>>
nonStageVars == <<poolVars, mergeVars, exportVars, formVars, fnVars, downloadVars,
                 lockVars>>
nonPoolVars  == <<stageVars, histVars, mergeVars, exportVars, formVars, fnVars, downloadVars,
                 lockVars>>
nonMergeVars == <<stageVars, histVars, poolVars, exportVars, formVars, fnVars, downloadVars,
                 lockVars>>
nonExportVars == <<stageVars, histVars, poolVars, mergeVars, formVars, fnVars, downloadVars,
                 lockVars>>
nonFormVars == <<stageVars, histVars, poolVars, mergeVars, exportVars, fnVars, downloadVars,
                 lockVars>>
nonFnVars == <<stageVars, histVars, poolVars, mergeVars, exportVars, formVars, downloadVars,
                 lockVars>>
nonDownloadVars == <<stageVars, histVars, poolVars, mergeVars, exportVars, formVars, fnVars,
                 lockVars>>
vars      == <<stageVars, histVars, poolVars, mergeVars, exportVars, formVars, fnVars,
               downloadVars, lockVars>>

---------------------------------------------------------------------------
(* Bounds and program constants                                            *)

BATCH_SIZE == 10

\* length of the remote record stream (indices 0 .. MaxRecords-1)
MaxRecords == 12

\* invocations of main() in one behaviour
MaxRuns == 2

\* longest cursor-file content drawn for get_cursor
MaxFileLen == 3

\* largest offset handed to save_cursor in CursorSpec
MaxOffset == 120

\* longest candidate list handed to a thread pool
MaxCandidates == 5

\* min(4, ...) of multithread_monolith.run_search_to_excel
MonolithThreads == 4

\* threads=4 of gtr_scraper.run_gtr_search_to_excel
GtrThreads == 4

\* the range of the rate-limit sleep of the stage-1 loop
MIN_SLEEP == 5

MAX_SLEEP == 12

\* num_threads=4 of ukri_protocol_finder.scrape_protocol_info_multithreaded
FinderThreads == 4

\* largest max_rows handed to the protocol finder
MaxRowsCap == 2

\* longest record list handed to the merge
MaxMergeRecords == 3

\* most rows the protocol scraper returns to the merge
MaxProtocolRows == 2

\* Award IDs of the filtered records; "Z" is an id no filtered record has
AwardIds == {"A", "B"}

\* characters of the cursor-file contents drawn for get_cursor
FileAlphabet == {"0", "1", "-", " ", "\n", "x"}

\* records that may carry a protocol: one in the first batch, the first of the second
ProtocolCandidates == {1, BATCH_SIZE}

---------------------------------------------------------------------------
(* Text <-> integer conversions used by the cursor file                    *)

DigitChars == <<"0", "1", "2", "3", "4", "5", "6", "7", "8", "9">>

DigitSet == {DigitChars[i] : i \in 1..10}

Whitespace == {" ", "\n"}

DigitVal(c) == (CHOOSE i \in 1..10 : DigitChars[i] = c) - 1

RECURSIVE NatStr(_)
NatStr(n) ==
    IF n < 10 THEN <<DigitChars[n + 1]>>
    ELSE NatStr(n \div 10) \o <<DigitChars[(n % 10) + 1]>>

\* str(offset) of an int
py_str(n) == IF n < 0 THEN <<"-">> \o NatStr(-n) ELSE NatStr(n)

RECURSIVE LStrip(_)
LStrip(s) == IF s # <<>> /\ Head(s) \in Whitespace THEN LStrip(Tail(s)) ELSE s

RECURSIVE RStrip(_)
RStrip(s) ==
    IF s # <<>> /\ s[Len(s)] \in Whitespace
    THEN RStrip(SubSeq(s, 1, Len(s) - 1)) ELSE s

\* s.strip()
Strip(s) == RStrip(LStrip(s))

Unsigned(t) == IF t # <<>> /\ Head(t) \in {"-", "+"} THEN Tail(t) ELSE t

\* int(t) does not raise ValueError: an optional sign, then one or more digits
IsIntLiteral(t) ==
    /\ Unsigned(t) # <<>>
    /\ \A i \in 1..Len(Unsigned(t)) : Unsigned(t)[i] \in DigitSet

RECURSIVE NatVal(_)
NatVal(d) ==
    IF d = <<>> THEN 0
    ELSE 10 * NatVal(SubSeq(d, 1, Len(d) - 1)) + DigitVal(d[Len(d)])

\* int(t) for a t that is a literal
py_int(t) == IF Head(t) = "-" THEN -NatVal(Unsigned(t)) ELSE NatVal(Unsigned(t))

Returned(v) == [raised |-> FALSE, value |-> v]

Raised == [raised |-> TRUE, value |-> 0]

get_cursor_zero(exists, content) == Returned(0)

get_cursor_uncaught(exists, content) ==
    IF exists
    THEN IF IsIntLiteral(Strip(content)) THEN Returned(py_int(Strip(content))) ELSE Raised
    ELSE Returned(0)

\* get_cursor(): the offset read from the cursor file; the ValueError of int() is
\* caught and a missing file is never opened, so no path raises
get_cursor(exists, content) ==
    IF exists
    THEN IF IsIntLiteral(Strip(content)) THEN Returned(py_int(Strip(content)))
         ELSE Returned(0)
    ELSE Returned(0)

OpenForAppend(content) == content

\* open(CURSOR_FILE, "w"): the content left by the open
OpenForWrite(content) == <<>>

\* f.write(text) and the flush at close
WriteText(content, text) == content \o text

---------------------------------------------------------------------------
(* Stage-1 ingestion: helpers                                              *)

\* the records the API serves for rows=BATCH_SIZE, start=start_offset
ApiPage(start_offset) ==
    IF start_offset < 0 \/ start_offset >= MaxRecords THEN <<>>
    ELSE LET hi == IF start_offset + BATCH_SIZE < MaxRecords
                   THEN start_offset + BATCH_SIZE ELSE MaxRecords
         IN  [i \in 1..(hi - start_offset) |-> start_offset + i - 1]

fetch_api_batch_retrying(start_offset, ok) == ApiPage(start_offset)

\* fetch_api_batch: the page, or [] when the request raised
fetch_api_batch(start_offset, ok) == IF ok THEN ApiPage(start_offset) ELSE <<>>

\* check_for_protocol: True only when the scrape worked and the page has a protocol pdf
check_for_protocol(item, ok) == ok /\ item \in protocolSet

\* end of one pass of "for item in records": next item, or on to step 5
AfterItem(i, batch) == IF i < Len(batch) THEN "check" ELSE "save_open"

NextOffset_assign(offset, batch) == Len(batch)

\* current_offset += len(records)
NextOffset(offset, batch) == offset + Len(batch)

NoIntr == [mid |-> FALSE, offset |-> 0, batch |-> <<>>]

Range(s) == {s[i] : i \in DOMAIN s}

OutCount(r) == Cardinality({i \in DOMAIN outputFile : outputFile[i] = r})

---------------------------------------------------------------------------
(* The parts a specification does not run stay in these states             *)

StageIdle ==
    /\ pc = "off"
    /\ runNo = 1
    /\ driver = "none"
    /\ current_offset = 0
    /\ records = <<>>
    /\ idx = 0
    /\ found = FALSE
    /\ outcome = ""
    /\ cursorRet = Returned(0)
    /\ cursorExists = FALSE
    /\ cursorFile = <<>>
    /\ outputFile = <<>>
    /\ protocolSet = {}
    /\ saveArgs = <<>>
    /\ attempted = {}
    /\ reqs = <<>>
    /\ processed = {}
    /\ persisted = -1
    /\ resumeFrom = -1
    /\ lastSave = [prev |-> 0, arg |-> 0]
    /\ saveCut = FALSE
    /\ intr = NoIntr
    /\ faults = FALSE
    /\ failedAt = -1
    /\ prevFailedAt = -1

PoolIdle ==
    /\ variant = "off"
    /\ site = 0
    /\ threads = 0
    /\ max_rows = 0
    /\ protocol_rows = <<>>
    /\ lateStarts = {}
    /\ task_queue = <<>>
    /\ results = <<>>
    /\ scrapeCount = <<>>
    /\ candidates = <<>>
    /\ chunks = <<>>
    /\ poolPc = "off"
    /\ wstate = <<>>
    /\ wpos = <<>>
    /\ wresults = <<>>
    /\ wfunded = <<>>
    /\ wdriver = <<>>
    /\ wgap = <<>>
    /\ collected = {}
    /\ enriched = <<>>
    /\ scrapeRaised = {}

MergeIdle ==
    /\ all_records = <<>>
    /\ protocol_records = <<>>
    /\ protocol_index = <<>>
    /\ enriched_records = <<>>
    /\ mergePc = "off"

FormIdle ==
    /\ formOpen = FALSE
    /\ entry_terms = <<>>
    /\ entry_rows = <<>>
    /\ result_container = <<>>
    /\ errorShown = ""

LockIdle ==
    /\ lock = 0
    /\ wsnap = <<>>

DownloadIdle ==
    /\ dlPc = "off"
    /\ dlRun = 0
    /\ lines = 0
    /\ line_num = 0
    /\ files = <<>>
    /\ skips = {}

FnIdle ==
    /\ fn = ""
    /\ fnPc = "off"
    /\ arg = <<>>
    /\ ret = <<>>

NotReturned == [returned |-> FALSE, records |-> <<>>]

ExportIdle ==
    /\ exPc = "off"
    /\ nhits = 0
    /\ served = 0
    /\ max_records = 0
    /\ page_size = 0
    /\ dates = <<>>
    /\ start_dt = 0
    /\ end_dt = 0
    /\ total = -1
    /\ start = 0
    /\ fetched = <<>>
    /\ fetchRet = NotReturned
    /\ ex_candidates = <<>>
    /\ sessions = 0
    /\ output = FALSE
    /\ badStatus = FALSE
    /\ pages = <<>>

---------------------------------------------------------------------------
(* Stage-1 ingestion: main()                                               *)

StageInit ==
    /\ pc = "start"
    /\ runNo = 1
    /\ driver = "none"
    /\ current_offset = 0
    /\ records = <<>>
    /\ idx = 0
    /\ found = FALSE
    /\ outcome = ""
    /\ cursorRet = Returned(0)
    /\ cursorExists = FALSE
    /\ cursorFile = <<>>
    /\ outputFile = <<>>
    /\ protocolSet \in SUBSET ProtocolCandidates
    /\ saveArgs = <<>>
    /\ attempted = {}
    /\ reqs = <<>>
    /\ processed = {}
    /\ persisted = -1
    /\ resumeFrom = -1
    /\ lastSave = [prev |-> 0, arg |-> 0]
    /\ saveCut = FALSE
    /\ intr = NoIntr
    /\ faults = FALSE
    /\ failedAt = -1
    /\ prevFailedAt = -1
    /\ PoolIdle
    /\ MergeIdle
    /\ ExportIdle
    /\ FormIdle
    /\ FnIdle
    /\ DownloadIdle
    /\ LockIdle

\* driver = setup_driver(); current_offset = get_cursor()
\* (both before the try: an exception here ends the process with the driver open)
StartRun ==
    /\ pc = "start"
    /\ driver' = "open"
    /\ cursorRet' = get_cursor(cursorExists, cursorFile)
    /\ current_offset' = get_cursor(cursorExists, cursorFile).value
    /\ pc' = IF get_cursor(cursorExists, cursorFile).raised THEN "dead" ELSE "fetch"
    /\ resumeFrom' = persisted
    /\ UNCHANGED <<runNo, records, idx, found, outcome, cursorExists, cursorFile,
                   outputFile, protocolSet>>
    /\ UNCHANGED <<saveArgs, attempted, reqs, processed, persisted, lastSave,
                   saveCut, intr, faults>>
    /\ UNCHANGED <<failedAt, prevFailedAt>>
    /\ UNCHANGED nonStageVars

\* records, total_hits = fetch_api_batch(current_offset); if not records: break
\* (preceded, from the second pass on, by the time.sleep(2) between batches)
FetchBatch ==
    /\ pc = "fetch"
    /\ \E ok \in BOOLEAN :
         /\ records' = fetch_api_batch(current_offset, ok)
         /\ faults' = (faults \/ ~ok)
         /\ failedAt' = IF ok THEN failedAt ELSE current_offset
    /\ reqs' = Append(reqs, current_offset)
    /\ IF records' = <<>>
       THEN pc' = "finally" /\ outcome' = "complete" /\ idx' = 0
       ELSE pc' = "check" /\ outcome' = outcome /\ idx' = 1
    /\ attempted' = {}
    /\ UNCHANGED <<runNo, driver, current_offset, found, cursorRet, cursorExists,
                   cursorFile, outputFile, protocolSet>>
    /\ UNCHANGED <<saveArgs, processed, persisted, resumeFrom, lastSave, saveCut, intr>>
    /\ UNCHANGED prevFailedAt
    /\ UNCHANGED nonStageVars

\* has_protocol, protocol_url, protocol_title = check_for_protocol(driver, project_url)
\* (ok = FALSE: the scrape raised inside check_for_protocol, which logs and returns False)
CheckItem ==
    /\ pc = "check"
    /\ \E ok \in BOOLEAN :
         /\ found' = check_for_protocol(records[idx], ok)
         /\ faults' = (faults \/ ~ok)
    /\ pc' = IF found' THEN "save_record" ELSE "sleep"
    /\ attempted' = attempted \cup {records[idx]}
    /\ processed' = processed \cup {records[idx]}
    /\ UNCHANGED <<runNo, driver, current_offset, records, idx, outcome, cursorRet,
                   cursorExists, cursorFile, outputFile, protocolSet>>
    /\ UNCHANGED <<saveArgs, reqs, persisted, resumeFrom, lastSave, saveCut, intr>>
    /\ UNCHANGED <<failedAt, prevFailedAt>>
    /\ UNCHANGED nonStageVars

\* save_record(rag_entry): one line appended to OUTPUT_FILE
SaveRecord ==
    /\ pc = "save_record"
    /\ outputFile' = Append(outputFile, records[idx])
    /\ pc' = "sleep"
    /\ UNCHANGED <<runNo, driver, current_offset, records, idx, found, outcome,
                   cursorRet, cursorExists, cursorFile, protocolSet>>
    /\ UNCHANGED histVars
    /\ UNCHANGED nonStageVars

\* time.sleep(random.randint(MIN_SLEEP, MAX_SLEEP)), then the next item or step 5
SleepDone ==
    /\ pc = "sleep"
    /\ pc' = AfterItem(idx, records)
    /\ idx' = IF AfterItem(idx, records) = "check" THEN idx + 1 ELSE idx
    /\ UNCHANGED <<runNo, driver, current_offset, records, found, outcome, cursorRet,
                   cursorExists, cursorFile, outputFile, protocolSet>>
    /\ UNCHANGED histVars
    /\ UNCHANGED nonStageVars

\* current_offset += len(records); save_cursor: open(CURSOR_FILE, "w") truncates
SaveCursorOpen ==
    /\ pc = "save_open"
    /\ current_offset' = NextOffset(current_offset, records)
    /\ saveArgs' = Append(saveArgs, current_offset')
    /\ lastSave' = [prev |-> get_cursor(cursorExists, cursorFile).value,
                    arg  |-> current_offset']
    /\ cursorExists' = TRUE
    /\ cursorFile' = OpenForWrite(cursorFile)
    /\ persisted' = -1
    /\ saveCut' = FALSE
    /\ pc' = "save_write"
    /\ UNCHANGED <<runNo, driver, records, idx, found, outcome, cursorRet, outputFile,
                   protocolSet>>
    /\ UNCHANGED <<attempted, reqs, processed, resumeFrom, intr, faults>>
    /\ UNCHANGED <<failedAt, prevFailedAt>>
    /\ UNCHANGED nonStageVars

\* save_cursor: f.write(str(offset)) and the close that flushes it
SaveCursorWrite ==
    /\ pc = "save_write"
    /\ cursorFile' = WriteText(cursorFile, py_str(current_offset))
    /\ persisted' = current_offset
    /\ pc' = "fetch"
    /\ UNCHANGED <<runNo, driver, current_offset, records, idx, found, outcome,
                   cursorRet, cursorExists, outputFile, protocolSet>>
    /\ UNCHANGED <<saveArgs, attempted, reqs, processed, resumeFrom, lastSave,
                   saveCut, intr, faults>>
    /\ UNCHANGED <<failedAt, prevFailedAt>>
    /\ UNCHANGED nonStageVars

InLoop == pc \in {"fetch", "check", "save_record", "sleep", "save_open", "save_write"}

MidBatch == pc \in {"check", "save_record", "sleep"}

\* KeyboardInterrupt inside the try: "except KeyboardInterrupt", then finally
Interrupt ==
    /\ InLoop
    /\ pc' = "finally"
    /\ outcome' = "paused"
    /\ saveCut' = (saveCut \/ pc = "save_write")
    /\ intr' = IF MidBatch
               THEN [mid |-> TRUE, offset |-> current_offset, batch |-> records]
               ELSE intr
    /\ UNCHANGED <<runNo, driver, current_offset, records, idx, found, cursorRet,
                   cursorExists, cursorFile, outputFile, protocolSet>>
    /\ UNCHANGED <<saveArgs, attempted, reqs, processed, persisted, resumeFrom,
                   lastSave, faults>>
    /\ UNCHANGED <<failedAt, prevFailedAt>>
    /\ UNCHANGED nonStageVars

\* finally: driver.quit()
Finally ==
    /\ pc = "finally"
    /\ driver' = "quit"
    /\ pc' = "exited"
    /\ UNCHANGED <<runNo, current_offset, records, idx, found, outcome, cursorRet,
                   cursorExists, cursorFile, outputFile, protocolSet>>
    /\ UNCHANGED histVars
    /\ UNCHANGED nonStageVars

\* the process is killed: no handler and no finally runs
Crash ==
    /\ InLoop \/ pc = "finally"
    /\ pc' = "dead"
    /\ saveCut' = (saveCut \/ pc = "save_write")
    /\ UNCHANGED <<runNo, driver, current_offset, records, idx, found, outcome,
                   cursorRet, cursorExists, cursorFile, outputFile, protocolSet>>
    /\ UNCHANGED <<saveArgs, attempted, reqs, processed, persisted, resumeFrom,
                   lastSave, intr, faults>>
    /\ UNCHANGED <<failedAt, prevFailedAt>>
    /\ UNCHANGED nonStageVars

\* a new invocation of the script: only the two files survive
Restart ==
    /\ pc \in {"exited", "dead"}
    /\ runNo < MaxRuns
    /\ runNo' = runNo + 1
    /\ pc' = "start"
    /\ driver' = "none"
    /\ current_offset' = 0
    /\ records' = <<>>
    /\ idx' = 0
    /\ found' = FALSE
    /\ outcome' = ""
    /\ cursorRet' = Returned(0)
    /\ saveArgs' = <<>>
    /\ attempted' = {}
    /\ reqs' = <<>>
    /\ processed' = {}
    /\ resumeFrom' = -1
    /\ intr' = NoIntr
    /\ prevFailedAt' = failedAt
    /\ failedAt' = -1
    /\ UNCHANGED <<cursorExists, cursorFile, outputFile, protocolSet, persisted,
                   lastSave, saveCut, faults>>
    /\ UNCHANGED nonStageVars

Init == StageInit

Next ==
    \/ StartRun
    \/ FetchBatch
    \/ CheckItem
    \/ SaveRecord
    \/ SleepDone
    \/ SaveCursorOpen
    \/ SaveCursorWrite
    \/ Interrupt
    \/ Finally
    \/ Crash
    \/ Restart

Spec == Init /\ [][Next]_vars

---------------------------------------------------------------------------
(* Claims about the long-running ingestion                                 *)

\* C1: within one run the offsets passed to save_cursor never decrease, and
\* save_cursor runs only when check_for_protocol has returned for every record
\* of the batch just fetched, never while the batch is partly processed.
CheckpointOnlyAfterBatch ==
    /\ \A i \in 1..(Len(saveArgs) - 1) : saveArgs[i] <= saveArgs[i + 1]
    /\ pc = "save_write" => attempted = Range(records)

\* a run that is inside its second save_cursor call
SecondCheckpointOfRun ==
    /\ pc = "save_write"
    /\ Len(saveArgs) = 2
    /\ Len(records) >= 2

\* C2: with interruptions and resumed invocations, every record that has a
\* protocol is in the output file exactly once: none twice, and none missing
\* once a run that met no failed request has reached the end of the stream.
ExactlyOnceAcrossResume ==
    /\ \A r \in 0..(MaxRecords - 1) : OutCount(r) <= 1
    /\ (pc = "exited" /\ outcome = "complete" /\ ~faults)
         => \A r \in protocolSet : OutCount(r) = 1

\* C3: an invocation that starts with the cursor file holding a completed
\* save_cursor(k) sends its first API request with start = k, and requests
\* and processes no record with an index below k.
ResumeFromCheckpoint ==
    resumeFrom >= 0 =>
        /\ reqs # <<>> => reqs[1] = resumeFrom
        /\ \A i \in DOMAIN reqs : reqs[i] >= resumeFrom
        /\ \A r \in processed : r >= resumeFrom

\* a resumed invocation that has processed records past a checkpoint of one batch
ResumedPastFirstBatch ==
    /\ runNo >= 2
    /\ resumeFrom = BATCH_SIZE
    /\ processed # {}

\* C4: a run that was interrupted while a batch was being processed has, when
\* it exits, attempted every record of that batch, persisted the checkpoint
\* advanced past the batch, and quit the browser.
InterruptFinishesBatch ==
    (pc = "exited" /\ intr.mid) =>
        /\ attempted = Range(intr.batch)
        /\ persisted = intr.offset + Len(intr.batch)
        /\ driver = "quit"

\* C5: the get_cursor of an invocation that follows an interrupted
\* save_cursor(o) returns the offset persisted before that call, or o.
InterruptedSaveIsAtomic ==
    (runNo >= 2 /\ pc = "fetch" /\ reqs = <<>> /\ saveCut) =>
        current_offset \in {lastSave.prev, lastSave.arg}

\* C19: when the API request at offset o fails, the persisted checkpoint stays
\* o (the cursor file still reads o), the run makes no further API request, and
\* the first request of the next invocation is at o again.
FailedRequestIsRetriedNextRun ==
    /\ failedAt >= 0 =>
         /\ pc \in {"finally", "exited", "dead"}
         /\ reqs[Len(reqs)] = failedAt
         /\ get_cursor(cursorExists, cursorFile) = Returned(failedAt)
    /\ (prevFailedAt >= 0 /\ reqs # <<>>) => reqs[1] = prevFailedAt

\* the invocation after one whose request for the second batch failed has made
\* its first request
RetriedFailedSecondBatch ==
    /\ prevFailedAt = BATCH_SIZE
    /\ runNo = MaxRuns
    /\ reqs # <<>>

\* C30: a failed API fetch is told apart from the end of the stream: a run
\* ends in "job complete" only after a successful API response that held no
\* records, never after a request that failed.
CompleteOnlyAfterEmptyResponse ==
    outcome = "complete" => (records = <<>> /\ failedAt = -1)

---------------------------------------------------------------------------
(* get_cursor / save_cursor on their own: any file content, any offset     *)

FileContents == UNION {[1..n -> FileAlphabet] : n \in 0..MaxFileLen}

CursorInit ==
    /\ pc = "cursor"
    /\ cursorExists \in BOOLEAN
    /\ cursorFile \in FileContents
    /\ ~cursorExists => cursorFile = <<>>
    /\ runNo = 1
    /\ driver = "none"
    /\ current_offset = 0
    /\ records = <<>>
    /\ idx = 0
    /\ found = FALSE
    /\ outcome = ""
    /\ cursorRet = Returned(0)
    /\ outputFile = <<>>
    /\ protocolSet = {}
    /\ saveArgs = <<>>
    /\ attempted = {}
    /\ reqs = <<>>
    /\ processed = {}
    /\ persisted = -1
    /\ resumeFrom = -1
    /\ lastSave = [prev |-> 0, arg |-> 0]
    /\ saveCut = FALSE
    /\ intr = NoIntr
    /\ faults = FALSE
    /\ failedAt = -1
    /\ prevFailedAt = -1
    /\ PoolIdle
    /\ MergeIdle
    /\ ExportIdle
    /\ FormIdle
    /\ FnIdle
    /\ DownloadIdle
    /\ LockIdle

\* a call of get_cursor()
CursorLoad ==
    /\ pc \in {"cursor", "saved"}
    /\ cursorRet' = get_cursor(cursorExists, cursorFile)
    /\ pc' = "loaded"
    /\ UNCHANGED <<runNo, driver, current_offset, records, idx, found, outcome,
                   cursorExists, cursorFile, outputFile, protocolSet>>
    /\ UNCHANGED histVars
    /\ UNCHANGED nonStageVars

\* a call of save_cursor(offset) that runs to its end
CursorSave ==
    /\ pc \in {"cursor", "loaded"}
    /\ \E offset \in 0..MaxOffset :
         /\ cursorFile' = WriteText(OpenForWrite(cursorFile), py_str(offset))
         /\ persisted' = offset
         /\ saveArgs' = <<offset>>
    /\ cursorExists' = TRUE
    /\ pc' = "saved"
    /\ UNCHANGED <<runNo, driver, current_offset, records, idx, found, outcome,
                   cursorRet, outputFile, protocolSet>>
    /\ UNCHANGED <<attempted, reqs, processed, resumeFrom, lastSave, saveCut, intr,
                   faults>>
    /\ UNCHANGED <<failedAt, prevFailedAt>>
    /\ UNCHANGED nonStageVars

CursorNext ==
    \/ CursorLoad
    \/ CursorSave

CursorSpec == CursorInit /\ [][CursorNext]_vars

---------------------------------------------------------------------------
(* Claims about the checkpoint store                                       *)

\* Python's int() accepts s: blanks, an optional sign, digits, blanks
ParsesAsInt(s) ==
    \E i, j \in 1..Len(s) :
        /\ i <= j
        /\ \A k \in 1..(i - 1) : s[k] \in Whitespace
        /\ \A k \in (j + 1)..Len(s) : s[k] \in Whitespace
        /\ \A k \in i..j : \/ s[k] \in DigitSet
                           \/ k = i /\ i < j /\ s[k] \in {"+", "-"}

\* C6: get_cursor returns 0 and does not raise when the cursor file is absent
\* or its content (the empty content included) does not parse as an integer.
GetCursorDefaultsToZero ==
    (pc = "loaded" /\ (~cursorExists \/ ~ParsesAsInt(cursorFile)))
        => cursorRet = Returned(0)

\* get_cursor has run on a file that holds digits followed by garbage
LoadedCorruptCursor ==
    /\ pc = "loaded"
    /\ cursorExists
    /\ cursorFile = <<"1", "x">>

\* C7: get_cursor after a completed save_cursor(o), o >= 0, returns o.
CursorRoundTrip ==
    (pc = "loaded" /\ persisted >= 0) => cursorRet = Returned(persisted)

\* C28: the checkpoint is a non-negative integer: for every content of the
\* cursor file get_cursor returns an integer >= 0, and every value save_cursor
\* writes is >= 0.
CursorIsNonNegative ==
    /\ pc = "loaded" => (~cursorRet.raised /\ cursorRet.value >= 0)
    /\ \A i \in DOMAIN saveArgs : saveArgs[i] >= 0

\* get_cursor has run after save_cursor of a three-digit offset over an older file
LoadedSavedCursor ==
    /\ pc = "loaded"
    /\ persisted >= 100
    /\ cursorRet.value = persisted

---------------------------------------------------------------------------
(* Rows and dictionaries of the protocol finder and its merge              *)

SeqsUpTo(S, n) == UNION {[1..k -> S] : k \in 0..n}

\* the keys the merge and scrape_batch add to a record
EnrichmentKeys ==
    {"ProtocolCount", "MostRecentProtocolURL", "MostRecentProtocolTitle",
     "MostRecentProtocolDate", "ChiefInvestigators", "NoOfPIs", "CoInvestigators",
     "NoOfCoIs"}

\* the dict a finder worker appends for a record with protocols: no PI or Co-I key
ProtocolRow(aid, protos) ==
    [aid |-> aid,
     ProtocolCount |-> Len(protos),
     MostRecentProtocolURL |-> protos[1].url,
     MostRecentProtocolTitle |-> protos[1].title,
     MostRecentProtocolDate |-> protos[1].date]

\* the rows the scraper may hand to the merge
ProtocolRows ==
    {ProtocolRow(a, [k \in 1..n |-> [url |-> "u", title |-> "t", date |-> "2021-05"]]) :
        a \in AwardIds \cup {"Z"}, n \in 1..2}

\* {r["Award ID"]: r for r in protocol_records}: the last row of an id wins
IndexOf(rows) ==
    [a \in {rows[i].aid : i \in DOMAIN rows} |->
        rows[CHOOSE i \in DOMAIN rows :
                /\ rows[i].aid = a
                /\ \A j \in DOMAIN rows : rows[j].aid = a => j <= i]]

\* dict.get(key, default); {} is the function with the empty domain
Get(d, key, default) == IF key \in DOMAIN d THEN d[key] ELSE default

MergedRow_fromProtocol(rec, index) ==
    IF rec \in DOMAIN index THEN [aid |-> rec, ProtocolCount |-> index[rec].ProtocolCount]
    ELSE [aid |-> "", ProtocolCount |-> 0]

\* {**rec, "Protocol Count": p.get("Protocol Count", 0), ...}, p = index.get(aid, {})
MergedRow(rec, index) ==
    LET p == Get(index, rec, <<>>)
    IN  [aid |-> rec,
         ProtocolCount |-> Get(p, "ProtocolCount", 0),
         MostRecentProtocolURL   |-> Get(p, "MostRecentProtocolURL", ""),
         MostRecentProtocolTitle |-> Get(p, "MostRecentProtocolTitle", ""),
         MostRecentProtocolDate  |-> Get(p, "MostRecentProtocolDate", ""),
         ChiefInvestigators |-> Get(p, "ChiefInvestigators", <<>>),
         NoOfPIs |-> Get(p, "NoOfPIs", 0),
         CoInvestigators |-> Get(p, "CoInvestigators", <<>>),
         NoOfCoIs |-> Get(p, "NoOfCoIs", 0)]

---------------------------------------------------------------------------
(* Static-chunk thread pools: multithread_monolith.run_search_to_excel and *)
(* gtr_scraper.run_gtr_search_to_excel                                     *)

Max(a, b) == IF a >= b THEN a ELSE b

Min(a, b) == IF a <= b THEN a ELSE b

\* max_workers of the ThreadPoolExecutor
n_threads(v, n) ==
    IF v = "monolith" THEN Min(MonolithThreads, Max(1, n)) ELSE threads

\* the thread count the callers in the source pass
DefaultThreads(v) ==
    CASE v = "gtr"    -> GtrThreads
      [] v = "finder" -> FinderThreads
      [] OTHER        -> MonolithThreads

\* chunk_size: ceil(n / n_threads) in the monolith and the finder,
\* max(1, n // threads) in gtr
chunk_size(v, n) ==
    IF v = "gtr"
    THEN Max(1, n \div threads)
    ELSE (n + n_threads(v, n) - 1) \div n_threads(v, n)

Slices_fullOnly(list, size) ==
    [k \in 1..(Len(list) \div size) |->
        SubSeq(list, (k - 1) * size + 1, k * size)]

\* [list[i:i + size] for i in range(0, len(list), size)], size >= 1
Slices(list, size) ==
    [k \in 1..((Len(list) + size - 1) \div size) |->
        SubSeq(list, (k - 1) * size + 1, Min(k * size, Len(list)))]

\* the funded value a successful scrape_project_page returns for an item
FundedOf(item) == item

\* the detail-page sets a run may meet; under each, the pages differ from item to item
Sites == {0, 1}

\* one protocol link of a detail page (its date already parsed)
ProtocolEntry == [url |-> "u", title |-> "t", date |-> "2021-05"]

\* what scrape_award_page / get_protocol_links_for_award finds on the page of an
\* item when it returns: the protocol links (newest first), the PI and Co-I names
PageProtocols(item, s) == [k \in 1..((item + s) % 3) |-> ProtocolEntry]

PagePIs(item, s) == IF (item + s) % 2 = 1 THEN <<"Ann", "Bob">> ELSE <<>>

PageCoIs(item, s) == IF (item + s) % 3 = 1 THEN <<"Cy">> ELSE <<>>

\* "; ".join(names): the text as a sequence of names and separators, "" is <<>>
RECURSIVE Join(_)
Join(names) ==
    IF Len(names) <= 1 THEN names
    ELSE <<Head(names), "; ">> \o Join(Tail(names))

Scraped_unguarded(ok, onPage) == onPage

\* what the worker holds after the try: the scrape's lists, or [] from the except
Scraped(ok, onPage) == IF ok THEN onPage ELSE <<>>

\* one result row: the item, whether its scrape returned, the funded value (gtr)
\* and the enrichment columns scrape_batch computes from protocols, pis, cois
Row(item, scraped, fv) ==
    LET protocols == Scraped(scraped, PageProtocols(item, site))
        pis       == Scraped(scraped, PagePIs(item, site))
        cois      == Scraped(scraped, PageCoIs(item, site))
    IN  [id |-> item, scraped |-> scraped, fv |-> fv,
         ProtocolCount |-> Len(protocols),
         MostRecentProtocolURL   |-> IF protocols # <<>> THEN protocols[1].url ELSE "",
         MostRecentProtocolTitle |-> IF protocols # <<>> THEN protocols[1].title ELSE "",
         MostRecentProtocolDate  |-> IF protocols # <<>> THEN protocols[1].date ELSE "",
         ChiefInvestigators |-> Join(pis),
         NoOfPIs |-> Len(pis),
         CoInvestigators |-> Join(cois),
         NoOfCoIs |-> Len(cois)]

\* scrape_gtr_batch's local funded_value after the try: assigned by a scrape that
\* returned, left as it was (unbound, -1, on a first item) by one that raised
FundedAfterScrape(ok, item, local) == IF ok THEN FundedOf(item) ELSE local

\* enriched.extend(res) / results.extend(fut.result())
Collected(list, res) == list \o res

Workers == DOMAIN wstate

Running == {w \in Workers : wstate[w] = "running"}

\* a pipeline before its split, whatever its thread count
PoolFresh ==
    /\ variant \in {"monolith", "gtr", "finder"}
    /\ site \in Sites
    /\ candidates \in {[i \in 1..n |-> i] : n \in 0..MaxCandidates}
    /\ poolPc = "split"
    /\ chunks = <<>>
    /\ wstate = <<>>
    /\ wpos = <<>>
    /\ wresults = <<>>
    /\ wfunded = <<>>
    /\ wdriver = <<>>
    /\ wgap = <<>>
    /\ collected = {}
    /\ enriched = <<>>
    /\ scrapeRaised = {}
    /\ max_rows \in IF variant = "finder" THEN 0..MaxRowsCap ELSE {0}
    /\ protocol_rows = <<>>
    /\ lateStarts = {}
    /\ task_queue = <<>>
    /\ results = <<>>
    /\ scrapeCount = <<>>
    /\ StageIdle
    /\ MergeIdle
    /\ ExportIdle
    /\ FormIdle
    /\ FnIdle
    /\ DownloadIdle
    /\ LockIdle

\* the pipelines as their callers run them
PoolInit ==
    /\ PoolFresh
    /\ threads = DefaultThreads(variant)

\* chunk_size, chunks and the pool.submit of every chunk; range(0, n, 0) raises
SplitAndSubmit ==
    /\ poolPc = "split"
    /\ variant \in {"monolith", "gtr"}
    /\ IF chunk_size(variant, Len(candidates)) = 0
       THEN /\ poolPc' = "raised"
            /\ UNCHANGED <<chunks, wstate, wpos, wresults, wfunded, wdriver, wgap>>
       ELSE /\ poolPc' = "running"
            /\ chunks' = Slices(candidates, chunk_size(variant, Len(candidates)))
            /\ wstate' = [w \in DOMAIN chunks' |-> "queued"]
            /\ wpos' = [w \in DOMAIN chunks' |-> 0]
            /\ wresults' = [w \in DOMAIN chunks' |-> <<>>]
            /\ wfunded' = [w \in DOMAIN chunks' |-> -1]
            /\ wdriver' = [w \in DOMAIN chunks' |-> "none"]
            /\ wgap' = [w \in DOMAIN chunks' |-> -1]
    /\ UNCHANGED <<variant, site, threads, candidates, collected, enriched, scrapeRaised>>
    /\ UNCHANGED finderVars
    /\ UNCHANGED nonPoolVars

\* a pool thread takes the next submitted chunk: driver = setup_driver()
StartWorker(w) ==
    /\ poolPc = "running"
    /\ wstate[w] = "queued"
    /\ \A v \in 1..(w - 1) : wstate[v] # "queued"
    /\ Cardinality(Running) < n_threads(variant, Len(candidates))
    /\ wstate' = [wstate EXCEPT ![w] = "running"]
    /\ wdriver' = [wdriver EXCEPT ![w] = "open"]
    /\ UNCHANGED <<variant, site, threads, candidates, chunks, poolPc, wpos, wresults, wfunded,
                   collected, enriched, scrapeRaised>>
    /\ UNCHANGED finderVars
    /\ UNCHANGED wgap
    /\ UNCHANGED nonPoolVars

\* the seconds scrape_batch sleeps between the previous scrape_award_page call
\* and this one: the loop holds no sleep, so none once a fetch has been made
SleptBetween(done) == IF done = 0 THEN -1 ELSE 0

\* scrape_batch: one pass of the for loop (the scrape, its except, results.append)
ScrapeItemMonolith(w) ==
    /\ variant = "monolith"
    /\ wstate[w] = "running"
    /\ wpos[w] < Len(chunks[w])
    /\ \E ok \in BOOLEAN :
         /\ wresults' = [wresults EXCEPT
                ![w] = Append(@, Row(chunks[w][wpos[w] + 1], ok, 0))]
         /\ scrapeRaised' = IF ok THEN scrapeRaised
                            ELSE scrapeRaised \cup {chunks[w][wpos[w] + 1]}
    /\ wpos' = [wpos EXCEPT ![w] = @ + 1]
    /\ wgap' = [wgap EXCEPT ![w] = SleptBetween(wpos[w])]
    /\ UNCHANGED <<variant, site, threads, candidates, chunks, poolPc, wstate, wfunded, wdriver,
                   collected, enriched>>
    /\ UNCHANGED finderVars
    /\ UNCHANGED nonPoolVars

\* scrape_gtr_batch: one pass of the for loop; reading an unbound funded_value in
\* results.append raises UnboundLocalError out of the worker, past driver.quit()
ScrapeItemGtr(w) ==
    /\ variant = "gtr"
    /\ wstate[w] = "running"
    /\ wpos[w] < Len(chunks[w])
    /\ \E ok \in BOOLEAN :
         /\ wfunded' = [wfunded EXCEPT
                ![w] = FundedAfterScrape(ok, chunks[w][wpos[w] + 1], @)]
         /\ scrapeRaised' = IF ok THEN scrapeRaised
                            ELSE scrapeRaised \cup {chunks[w][wpos[w] + 1]}
         /\ IF wfunded'[w] = -1
            THEN /\ wstate' = [wstate EXCEPT ![w] = "failed"]
                 /\ UNCHANGED <<wresults, wpos>>
            ELSE /\ wresults' = [wresults EXCEPT
                        ![w] = Append(@, Row(chunks[w][wpos[w] + 1], ok, wfunded'[w]))]
                 /\ wpos' = [wpos EXCEPT ![w] = @ + 1]
                 /\ UNCHANGED wstate
    /\ UNCHANGED <<variant, site, threads, candidates, chunks, poolPc, wdriver, wgap, collected, enriched>>
    /\ UNCHANGED finderVars
    /\ UNCHANGED nonPoolVars

\* the loop is over: driver.quit(); return results
FinishWorker(w) ==
    /\ variant \in {"monolith", "gtr"}
    /\ wstate[w] = "running"
    /\ wpos[w] = Len(chunks[w])
    /\ wdriver' = [wdriver EXCEPT ![w] = "quit"]
    /\ wstate' = [wstate EXCEPT ![w] = "done"]
    /\ UNCHANGED <<variant, site, threads, candidates, chunks, poolPc, wpos, wresults, wfunded,
                   collected, enriched, scrapeRaised>>
    /\ UNCHANGED finderVars
    /\ UNCHANGED wgap
    /\ UNCHANGED nonPoolVars

\* as_completed yields a finished future; its rows are appended to the list
\* (a future that raised: gtr prints "Worker failed" and adds nothing)
Collect(w) ==
    /\ variant \in {"monolith", "gtr"}
    /\ poolPc = "running"
    /\ wstate[w] \in {"done", "failed"}
    /\ w \notin collected
    /\ collected' = collected \cup {w}
    /\ enriched' = IF wstate[w] = "done" THEN Collected(enriched, wresults[w])
                   ELSE enriched
    /\ UNCHANGED <<variant, site, threads, candidates, chunks, poolPc, wstate, wpos, wresults,
                   wfunded, wdriver, wgap, scrapeRaised>>
    /\ UNCHANGED finderVars
    /\ UNCHANGED nonPoolVars

\* every future has been yielded: the with block of the executor ends
PoolFinish ==
    /\ variant \in {"monolith", "gtr"}
    /\ poolPc = "running"
    /\ collected = Workers
    /\ poolPc' = "done"
    /\ UNCHANGED <<variant, site, threads, candidates, chunks, wstate, wpos, wresults, wfunded,
                   wdriver, wgap, collected, enriched, scrapeRaised>>
    /\ UNCHANGED finderVars
    /\ UNCHANGED nonPoolVars

\* rows found so far by all finder workers together
RECURSIVE SumLen(_)
SumLen(f) == IF f = <<>> THEN 0 ELSE Len(Head(f)) + SumLen(Tail(f))

\* scrape_protocol_info_multithreaded up to the submits: chunk_size, the early
\* "return []" of an empty list, chunks, executor.submit of every chunk
FinderSplit ==
    /\ poolPc = "split"
    /\ variant = "finder"
    /\ IF Len(candidates) = 0
       THEN /\ poolPc' = "merge"
            /\ protocol_records' = <<>>
            /\ UNCHANGED <<chunks, wstate, wpos, wresults, wfunded, wdriver, wgap>>
       ELSE /\ poolPc' = "running"
            /\ chunks' = Slices(candidates, chunk_size(variant, Len(candidates)))
            /\ wstate' = [w \in DOMAIN chunks' |-> "queued"]
            /\ wpos' = [w \in DOMAIN chunks' |-> 0]
            /\ wresults' = [w \in DOMAIN chunks' |-> <<>>]
            /\ wfunded' = [w \in DOMAIN chunks' |-> -1]
            /\ wdriver' = [w \in DOMAIN chunks' |-> "none"]
            /\ wgap' = [w \in DOMAIN chunks' |-> -1]
            /\ UNCHANGED protocol_records
    /\ UNCHANGED <<variant, site, threads, candidates, collected, enriched, scrapeRaised>>
    /\ UNCHANGED finderVars
    /\ UNCHANGED <<all_records, protocol_index, enriched_records, mergePc>>
    /\ UNCHANGED <<stageVars, histVars, exportVars, formVars, fnVars, downloadVars,
                   lockVars>>

\* worker: one pass of "for row in subset": the cap test and break, else the
\* scrape, "continue" when it raised, local_results.append when protos is not empty
FinderPass(w) ==
    /\ variant = "finder"
    /\ wstate[w] = "running"
    /\ wpos[w] < Len(chunks[w])
    /\ IF Len(protocol_rows) >= max_rows
       THEN /\ wstate' = [wstate EXCEPT ![w] = "broke"]
            /\ UNCHANGED <<wpos, wresults, scrapeRaised, lateStarts>>
       ELSE /\ \E ok \in BOOLEAN :
                 LET item   == chunks[w][wpos[w] + 1]
                     protos == PageProtocols(item, site)
                 IN  /\ wresults' = IF ok /\ protos # <<>>
                                     THEN [wresults EXCEPT
                                             ![w] = Append(@, ProtocolRow(item, protos))]
                                     ELSE wresults
                     /\ scrapeRaised' = IF ok THEN scrapeRaised
                                        ELSE scrapeRaised \cup {item}
                     /\ lateStarts' = IF SumLen(wresults) >= max_rows
                                      THEN lateStarts \cup {item}
                                      ELSE lateStarts
            /\ wpos' = [wpos EXCEPT ![w] = @ + 1]
            /\ UNCHANGED wstate
    /\ UNCHANGED <<variant, site, threads, candidates, chunks, poolPc, wfunded, wdriver, wgap,
                   collected, enriched, max_rows, protocol_rows>>
    /\ UNCHANGED queueVars
    /\ UNCHANGED nonPoolVars

\* worker: the loop is over or was left: driver.quit(), then under the lock
\* protocol_rows.extend(local_results)
FinderLeave(w) ==
    /\ variant = "finder"
    /\ \/ wstate[w] = "running" /\ wpos[w] = Len(chunks[w])
       \/ wstate[w] = "broke"
    /\ wdriver' = [wdriver EXCEPT ![w] = "quit"]
    /\ protocol_rows' = protocol_rows \o wresults[w]
    /\ wstate' = [wstate EXCEPT ![w] = "done"]
    /\ UNCHANGED <<variant, site, threads, candidates, chunks, poolPc, wpos, wresults, wfunded,
                   collected, enriched, scrapeRaised, max_rows, lateStarts>>
    /\ UNCHANGED queueVars
    /\ UNCHANGED wgap
    /\ UNCHANGED nonPoolVars

\* concurrent.futures.wait(futures) returns; return protocol_rows
FinderReturn ==
    /\ variant = "finder"
    /\ poolPc = "running"
    /\ \A w \in Workers : wstate[w] = "done"
    /\ poolPc' = "merge"
    /\ protocol_records' = protocol_rows
    /\ UNCHANGED <<variant, site, threads, candidates, chunks, wstate, wpos, wresults, wfunded,
                   wdriver, wgap, collected, enriched, scrapeRaised>>
    /\ UNCHANGED finderVars
    /\ UNCHANGED <<all_records, protocol_index, enriched_records, mergePc>>
    /\ UNCHANGED <<stageVars, histVars, exportVars, formVars, fnVars, downloadVars,
                   lockVars>>

\* run_search_to_excel after the scraper: protocol_index and the merge loop
FinderMerge ==
    /\ variant = "finder"
    /\ poolPc = "merge"
    /\ poolPc' = "done"
    /\ protocol_index' = IndexOf(protocol_records)
    /\ enriched_records' =
         [i \in DOMAIN candidates |-> MergedRow(candidates[i], IndexOf(protocol_records))]
    /\ UNCHANGED <<variant, site, threads, candidates, chunks, wstate, wpos, wresults, wfunded,
                   wdriver, wgap, collected, enriched, scrapeRaised>>
    /\ UNCHANGED finderVars
    /\ UNCHANGED <<all_records, protocol_records, mergePc>>
    /\ UNCHANGED <<stageVars, histVars, exportVars, formVars, fnVars, downloadVars,
                   lockVars>>

PoolNext ==
    \/ SplitAndSubmit
    \/ FinderSplit
    \/ \E w \in Workers : StartWorker(w)
    \/ \E w \in Workers : ScrapeItemMonolith(w)
    \/ \E w \in Workers : ScrapeItemGtr(w)
    \/ \E w \in Workers : FinishWorker(w)
    \/ \E w \in Workers : Collect(w)
    \/ PoolFinish
    \/ \E w \in Workers : FinderPass(w)
    \/ \E w \in Workers : FinderLeave(w)
    \/ FinderReturn
    \/ FinderMerge

PoolSpec == PoolInit /\ [][PoolNext]_vars

---------------------------------------------------------------------------
(* Static partitioning alone, for every thread count                       *)

\* largest threads / num_threads argument drawn
MaxThreads == 5

PartitionInit ==
    /\ PoolFresh
    /\ threads \in 1..MaxThreads

PartitionNext ==
    \/ SplitAndSubmit
    \/ FinderSplit

PartitionSpec == PartitionInit /\ [][PartitionNext]_vars

\* chunks[0] + chunks[1] + ...
RECURSIVE Flatten(_)
Flatten(ss) == IF ss = <<>> THEN <<>> ELSE Head(ss) \o Flatten(Tail(ss))

\* ceil(n / w)
CeilDiv(n, w) == (n + w - 1) \div w

\* C13: for every list of N >= 1 items and every thread count W >= 1 the chunks
\* are contiguous slices whose concatenation in chunk order is the list, so each
\* item is in exactly one chunk (monolith, finder and gtr splits).
PartitionExhaustive ==
    (poolPc = "running" /\ Len(candidates) >= 1) =>
        /\ Flatten(chunks) = candidates
        /\ \A w \in Workers : chunks[w] # <<>>

\* a finder split of five records over three threads: the last chunk is short
SplitWithShortLastChunk ==
    /\ poolPc = "running"
    /\ variant = "finder"
    /\ threads = 3
    /\ Len(candidates) = 5
    /\ Len(chunks[Len(chunks)]) < Len(chunks[1])

\* C14: N items and thread count W give at most W chunks of at most ceil(N/W)
\* items each, so a run starts at most W workers and opens at most W browser
\* sessions (one per chunk).
AtMostWChunks ==
    poolPc = "running" =>
        /\ Len(chunks) <= n_threads(variant, Len(candidates))
        /\ \A w \in Workers :
              Len(chunks[w]) <= CeilDiv(Len(candidates),
                                        n_threads(variant, Len(candidates)))

---------------------------------------------------------------------------
(* Dynamic queue pulling: ukri_protocol_finder.scrape_protocol_info_driver_pool *)

\* num_drivers=4
NumDrivers == 4

\* longest record list put on the task queue
MaxQueued == 3

Dequeue_peek(q) == q

\* what get_nowait leaves in the queue
Dequeue(q) == Tail(q)

get_nowait_blocks(q) == FALSE

\* task_queue.get_nowait() raises Empty instead of waiting for an item
get_nowait_raises(q) == q = <<>>

\* the driver pool before it fills its queue, whatever its num_drivers
QueueFresh ==
    /\ variant = "driver_pool"
    /\ site \in Sites
    /\ candidates \in {[i \in 1..n |-> i] : n \in 0..MaxQueued}
    /\ max_rows \in 0..MaxRowsCap
    /\ poolPc = "split"
    /\ chunks = <<>>
    /\ wstate = <<>>
    /\ wpos = <<>>
    /\ wresults = <<>>
    /\ wfunded = <<>>
    /\ wdriver = <<>>
    /\ wgap = <<>>
    /\ collected = {}
    /\ enriched = <<>>
    /\ scrapeRaised = {}
    /\ protocol_rows = <<>>
    /\ lateStarts = {}
    /\ task_queue = <<>>
    /\ results = <<>>
    /\ scrapeCount = <<>>
    /\ StageIdle
    /\ MergeIdle
    /\ ExportIdle
    /\ FormIdle
    /\ FnIdle
    /\ DownloadIdle
    /\ LockIdle

\* the pool as its default argument runs it
QueueInit ==
    /\ QueueFresh
    /\ threads = NumDrivers

\* task_queue.put of every record, then Thread(...).start() num_drivers times
QueuePopulate ==
    /\ variant = "driver_pool"
    /\ poolPc = "split"
    /\ poolPc' = "running"
    /\ task_queue' = candidates
    /\ scrapeCount' = [i \in 1..Len(candidates) |-> 0]
    /\ wstate' = [w \in 1..threads |-> "queued"]
    /\ wresults' = [w \in 1..threads |-> <<>>]
    /\ wdriver' = [w \in 1..threads |-> "none"]
    /\ wgap' = [w \in 1..threads |-> -1]
    /\ UNCHANGED <<variant, site, threads, candidates, chunks, wpos, wfunded, collected,
                   enriched, scrapeRaised, max_rows, protocol_rows, lateStarts, results>>
    /\ UNCHANGED nonPoolVars

\* the thread begins to run: driver = setup_driver(); local_results = []
QueueStart(w) ==
    /\ variant = "driver_pool"
    /\ wstate[w] = "queued"
    /\ wstate' = [wstate EXCEPT ![w] = "test"]
    /\ wdriver' = [wdriver EXCEPT ![w] = "open"]
    /\ UNCHANGED <<variant, site, threads, candidates, chunks, poolPc, wpos, wresults,
                   wfunded, collected, enriched, scrapeRaised>>
    /\ UNCHANGED finderVars
    /\ UNCHANGED wgap
    /\ UNCHANGED nonPoolVars

\* while not task_queue.empty() and len(results) < max_rows
QueueTest(w) ==
    /\ variant = "driver_pool"
    /\ wstate[w] = "test"
    /\ wstate' = [wstate EXCEPT
            ![w] = IF task_queue # <<>> /\ Len(results) < max_rows
                   THEN "get" ELSE "leave"]
    /\ UNCHANGED <<variant, site, threads, candidates, chunks, poolPc, wpos, wresults,
                   wfunded, wdriver, wgap, collected, enriched, scrapeRaised>>
    /\ UNCHANGED finderVars
    /\ UNCHANGED nonPoolVars

\* the loop body: get_nowait (Empty: break), the scrape with its except, the
\* local_results.append when protos is not empty, task_done
QueueGet(w) ==
    /\ variant = "driver_pool"
    /\ wstate[w] = "get"
    /\ IF get_nowait_raises(task_queue)
       THEN /\ wstate' = [wstate EXCEPT ![w] = "leave"]
            /\ UNCHANGED <<task_queue, wresults, scrapeRaised, scrapeCount, lateStarts>>
       ELSE /\ task_queue # <<>>
            /\ \E ok \in BOOLEAN :
                 LET item   == Head(task_queue)
                     protos == PageProtocols(item, site)
                 IN  /\ wresults' = IF ok /\ protos # <<>>
                                     THEN [wresults EXCEPT
                                             ![w] = Append(@, ProtocolRow(item, protos))]
                                     ELSE wresults
                     /\ scrapeRaised' = IF ok THEN scrapeRaised
                                        ELSE scrapeRaised \cup {item}
                     /\ scrapeCount' = [scrapeCount EXCEPT ![item] = @ + 1]
                     /\ lateStarts' = IF SumLen(wresults) >= max_rows
                                      THEN lateStarts \cup {item}
                                      ELSE lateStarts
            /\ task_queue' = Dequeue(task_queue)
            /\ wstate' = [wstate EXCEPT ![w] = "test"]
    /\ UNCHANGED <<variant, site, threads, candidates, chunks, poolPc, wpos, wfunded,
                   wdriver, wgap, collected, enriched, max_rows, protocol_rows, results>>
    /\ UNCHANGED nonPoolVars

\* after the loop: results.extend(local_results) under results_lock; driver.quit()
QueueLeave(w) ==
    /\ variant = "driver_pool"
    /\ wstate[w] = "leave"
    /\ results' = results \o wresults[w]
    /\ wdriver' = [wdriver EXCEPT ![w] = "quit"]
    /\ wstate' = [wstate EXCEPT ![w] = "done"]
    /\ UNCHANGED <<variant, site, threads, candidates, chunks, poolPc, wpos, wresults,
                   wfunded, collected, enriched, scrapeRaised, max_rows, protocol_rows,
                   lateStarts, task_queue, scrapeCount>>
    /\ UNCHANGED wgap
    /\ UNCHANGED nonPoolVars

\* every join has returned: return results
QueueReturn ==
    /\ variant = "driver_pool"
    /\ poolPc = "running"
    /\ \A w \in Workers : wstate[w] = "done"
    /\ poolPc' = "done"
    /\ UNCHANGED <<variant, site, threads, candidates, chunks, wstate, wpos, wresults,
                   wfunded, wdriver, wgap, collected, enriched, scrapeRaised>>
    /\ UNCHANGED finderVars
    /\ UNCHANGED nonPoolVars

QueueNext ==
    \/ QueuePopulate
    \/ \E w \in Workers : QueueStart(w)
    \/ \E w \in Workers : QueueTest(w)
    \/ \E w \in Workers : QueueGet(w)
    \/ \E w \in Workers : QueueLeave(w)
    \/ QueueReturn

QueueSpec == QueueInit /\ [][QueueNext]_vars

\* num_drivers arguments of the termination runs
FairDrivers == {2, 3}

QueueFairInit ==
    /\ QueueFresh
    /\ threads \in FairDrivers

\* the threads are scheduled, and every page fetch returns or raises: a step
\* that can be taken is eventually taken
QueueFairSpec == QueueFairInit /\ [][QueueNext]_vars /\ WF_vars(QueueNext)

---------------------------------------------------------------------------
(* Claims about the thread pools                                           *)

\* C8: the rows of the final enriched list are in the order of the candidate
\* list handed to the pool, whatever the order in which the chunks complete.
EnrichedInCandidateOrder ==
    \A i, j \in DOMAIN enriched : i < j => enriched[i].id < enriched[j].id

\* C10: an item whose scrape raises still gets its row and the worker goes on:
\* no worker is ended by an item, a returned worker has one row per item of its
\* batch, and the pool ends with one row per candidate.
ItemFailureKeepsWorker ==
    variant \in {"monolith", "gtr"} =>
        /\ \A w \in Workers : wstate[w] # "failed"
        /\ \A w \in Workers : wstate[w] = "done" => Len(wresults[w]) = Len(chunks[w])
        /\ poolPc = "done" => Len(enriched) = Len(candidates)

\* the enrichment columns of a row hold the empty defaults, none is missing
HasDefaults(r) ==
    /\ EnrichmentKeys \subseteq DOMAIN r
    /\ r.ProtocolCount = 0
    /\ r.NoOfPIs = 0
    /\ r.NoOfCoIs = 0
    /\ r.ChiefInvestigators = <<>>
    /\ r.CoInvestigators = <<>>
    /\ r.MostRecentProtocolURL = ""
    /\ r.MostRecentProtocolTitle = ""
    /\ r.MostRecentProtocolDate = ""

\* C11: an item whose page scrape fails still has its row in the final output,
\* with Protocol Count, No. of PIs and No. of Co-Is 0 and the name and
\* most-recent-protocol columns empty, none of them missing (monolith worker
\* rows and enriched list; finder merge).
FailedScrapeYieldsDefaults ==
    /\ variant = "monolith" =>
         /\ \A w \in Workers : \A k \in 1..wpos[w] :
                /\ k <= Len(wresults[w])
                /\ wresults[w][k].id = chunks[w][k]
                /\ chunks[w][k] \in scrapeRaised => HasDefaults(wresults[w][k])
         /\ poolPc = "done" =>
                \A id \in scrapeRaised :
                    \E i \in DOMAIN enriched :
                        enriched[i].id = id /\ HasDefaults(enriched[i])
    /\ (variant = "finder" /\ poolPc = "done") =>
         /\ Len(enriched_records) = Len(candidates)
         /\ \A i \in DOMAIN candidates :
                /\ enriched_records[i].aid = candidates[i]
                /\ candidates[i] \in scrapeRaised => HasDefaults(enriched_records[i])

\* a monolith run has ended in which the scrape of an item whose page lists
\* protocols and investigators raised
MonolithFailedItemInOutput ==
    /\ variant = "monolith"
    /\ poolPc = "done"
    /\ \E id \in scrapeRaised :
         PageProtocols(id, site) # <<>> /\ PagePIs(id, site) # <<>>

\* the items whose page scrape a worker ran and that returned
ScrapedItems ==
    UNION {{chunks[w][k] : k \in 1..wpos[w]} : w \in Workers} \ scrapeRaised

\* C12: in every pipeline that writes the PI summary, the final row of a record
\* reports as Protocol Count the number of protocol links on its detail page and
\* as No. of PIs the number of distinct PI names on it (stated for the records
\* whose page was scraped and whose scrape returned).
RowReportsPageCounts ==
    /\ (variant = "monolith" /\ poolPc = "done") =>
         \A i \in DOMAIN enriched :
            enriched[i].id \in ScrapedItems =>
                /\ enriched[i].ProtocolCount = Len(PageProtocols(enriched[i].id, site))
                /\ enriched[i].NoOfPIs = Len(PagePIs(enriched[i].id, site))
    /\ (variant = "finder" /\ poolPc = "done") =>
         \A i \in DOMAIN enriched_records :
            candidates[i] \in ScrapedItems =>
                /\ enriched_records[i].ProtocolCount =
                        Len(PageProtocols(candidates[i], site))
                /\ enriched_records[i].NoOfPIs = Len(PagePIs(candidates[i], site))

\* C15: every browser session a worker creates is quit in the end, when the
\* worker finishes its chunk and when an exception escapes its item loop: a
\* worker that has ended, either way, has quit its session.
EndedWorkerHasQuit ==
    \A w \in Workers : wstate[w] \in {"done", "failed"} => wdriver[w] = "quit"

\* C16: once the protocol rows found by all workers together number max_rows,
\* no worker starts the scrape of a further item.
NoScrapeStartsPastCap ==
    lateStarts = {}

\* C18: between two consecutive detail-page fetches of the same worker there is
\* a rate-limit sleep of a duration within [MIN_SLEEP, MAX_SLEEP] (here: the
\* monolith's pool workers).
WorkerSleepsBetweenFetches ==
    variant = "monolith" =>
        \A w \in Workers : wgap[w] = -1 \/ wgap[w] \in MIN_SLEEP..MAX_SLEEP

---------------------------------------------------------------------------
(* The merge of ukri_protocol_finder.run_search_to_excel                   *)

MergeInit ==
    /\ all_records \in SeqsUpTo(AwardIds, MaxMergeRecords)
    /\ protocol_records \in SeqsUpTo(ProtocolRows, MaxProtocolRows)
    /\ protocol_index = <<>>
    /\ enriched_records = <<>>
    /\ mergePc = "index"
    /\ StageIdle
    /\ PoolIdle
    /\ ExportIdle
    /\ FormIdle
    /\ FnIdle
    /\ DownloadIdle
    /\ LockIdle

\* enriched_records = []; protocol_index = {...}
BuildIndex ==
    /\ mergePc = "index"
    /\ protocol_index' = IndexOf(protocol_records)
    /\ mergePc' = "merge"
    /\ UNCHANGED <<all_records, protocol_records, enriched_records>>
    /\ UNCHANGED nonMergeVars

\* one pass of "for rec in all_records"
MergeRecord ==
    /\ mergePc = "merge"
    /\ Len(enriched_records) < Len(all_records)
    /\ enriched_records' =
         Append(enriched_records,
                MergedRow(all_records[Len(enriched_records) + 1], protocol_index))
    /\ UNCHANGED <<all_records, protocol_records, protocol_index, mergePc>>
    /\ UNCHANGED nonMergeVars

\* the loop is over: write_excel_files(all_records, enriched_records, ...)
MergeDone ==
    /\ mergePc = "merge"
    /\ Len(enriched_records) = Len(all_records)
    /\ mergePc' = "done"
    /\ UNCHANGED <<all_records, protocol_records, protocol_index, enriched_records>>
    /\ UNCHANGED nonMergeVars

MergeNext ==
    \/ BuildIndex
    \/ MergeRecord
    \/ MergeDone

MergeSpec == MergeInit /\ [][MergeNext]_vars

---------------------------------------------------------------------------
(* Claims about the merge                                                  *)

\* C9: the merge is a left join: the output has one row per input record, in
\* input order, each row carrying its record's Award ID, so no row exists for
\* an Award ID that is not in the input list.
MergeIsLeftJoin ==
    /\ Len(enriched_records) <= Len(all_records)
    /\ \A i \in DOMAIN enriched_records : enriched_records[i].aid = all_records[i]
    /\ mergePc = "done" => Len(enriched_records) = Len(all_records)

\* a finished merge of a list with a repeated id, a record without a protocol
\* row, and a protocol row whose id no record has
MergedWithStrayProtocolRow ==
    /\ mergePc = "done"
    /\ Len(all_records) = MaxMergeRecords
    /\ \E i, j \in DOMAIN all_records : i < j /\ all_records[i] = all_records[j]
    /\ \E i \in DOMAIN all_records : all_records[i] \notin DOMAIN protocol_index
    /\ \E i \in DOMAIN protocol_records :
         protocol_records[i].aid \notin Range(all_records)

---------------------------------------------------------------------------
(* The bounded export: fetch_all_hits and run_search_to_excel of           *)
(* multithread_monolith.py                                                 *)

\* most hits the API reports for the query
MaxHits == 4

\* largest page_size handed to fetch_all_hits
MaxPageSize == 3

\* the responses a request may get: the status and whether the body is JSON
\* (an error status carries a JSON error document or something else)
Responses ==
    {[status |-> 200, json |-> TRUE], [status |-> 404, json |-> TRUE],
     [status |-> 500, json |-> FALSE], [status |-> 301, json |-> FALSE]}

raise_for_status_never(r) == FALSE

\* Response.raise_for_status: HTTPError for a 4xx or 5xx status
raise_for_status(r) == r.status >= 400 /\ r.status < 600

\* the request statement does not complete: raise_for_status or .json() raises
RequestRaises(r) == raise_for_status(r) \/ ~r.json

\* the records the API serves for rows=size, start=st (ids st+1 ..)
ServerPage(st, size) ==
    [k \in 1..(Max(st, Min(st + size, served)) - st) |-> st + k]

\* head.json().get("nhits", 0)
NhitsOf(r) == IF r.status = 200 THEN nhits ELSE 0

\* resp.json().get("records", [])
RecordsOf(r, st, size) == IF r.status = 200 THEN ServerPage(st, size) ELSE <<>>

\* latest day number of a record's best date
MaxDate == 3

\* choose_best_date returned None (as a day number)
NoDay == 0

\* choose_best_date of a record
DateOf(i) == dates[i]

\* list.sort(key=_sort_date, reverse=True): stable, newest first
RECURSIVE InsertByDate(_, _)
InsertByDate(x, sorted) ==
    IF sorted = <<>> THEN <<x>>
    ELSE IF DateOf(Head(sorted)) >= DateOf(x)
         THEN <<Head(sorted)>> \o InsertByDate(x, Tail(sorted))
         ELSE <<x>> \o sorted

RECURSIVE SortedByDate(_)
SortedByDate(list) ==
    IF list = <<>> THEN <<>>
    ELSE InsertByDate(list[Len(list)], SortedByDate(SubSeq(list, 1, Len(list) - 1)))

within_range_exclusive(dt, lo, hi) == dt # NoDay /\ lo < dt /\ dt < hi

\* within_range(dt, start_dt, end_dt): dt and start_dt <= dt <= end_dt
within_range(dt, lo, hi) == dt # NoDay /\ lo <= dt /\ dt <= hi

\* the test of the filter loop on one record
InWindow(i) == within_range(DateOf(i), start_dt, end_dt)

ExportInit ==
    /\ exPc = "probe"
    /\ nhits \in 0..MaxHits
    /\ served \in 0..nhits
    /\ max_records = 0
    /\ page_size \in 1..MaxPageSize
    /\ dates \in [1..nhits -> {NoDay, 1}]
    /\ start_dt = 1
    /\ end_dt = 1
    /\ total = -1
    /\ start = 0
    /\ fetched = <<>>
    /\ fetchRet = NotReturned
    /\ ex_candidates = <<>>
    /\ sessions = 0
    /\ output = FALSE
    /\ badStatus = FALSE
    /\ pages = <<>>
    /\ StageIdle
    /\ PoolIdle
    /\ MergeIdle
    /\ FormIdle
    /\ FnIdle
    /\ DownloadIdle
    /\ LockIdle

\* head = requests.get(..., rows=0); head.raise_for_status(); total = nhits
Probe ==
    /\ exPc = "probe"
    /\ \E r \in Responses :
         /\ badStatus' = (badStatus \/ r.status # 200)
         /\ IF RequestRaises(r)
            THEN exPc' = "fetch_raised" /\ UNCHANGED total
            ELSE exPc' = "page" /\ total' = NhitsOf(r)
    /\ UNCHANGED pages
    /\ UNCHANGED <<nhits, served, max_records, page_size, dates,
                   start_dt, end_dt, start, fetched, fetchRet,
                   ex_candidates, sessions, output>>
    /\ UNCHANGED nonExportVars

\* one pass of "while start < total": the page request, raise_for_status, the
\* break on an empty chunk, records.extend(chunk), start += page_size
Page ==
    /\ exPc = "page"
    /\ start < total
    /\ \E r \in Responses :
         /\ badStatus' = (badStatus \/ r.status # 200)
         /\ pages' = Append(pages,
                [start |-> start,
                 got   |-> IF RequestRaises(r) THEN -1
                           ELSE Len(RecordsOf(r, start, page_size))])
         /\ IF RequestRaises(r)
            THEN exPc' = "fetch_raised" /\ UNCHANGED <<fetched, start>>
            ELSE IF RecordsOf(r, start, page_size) = <<>>
                 THEN exPc' = "broke" /\ UNCHANGED <<fetched, start>>
                 ELSE /\ fetched' = fetched \o RecordsOf(r, start, page_size)
                      /\ start' = start + page_size
                      /\ UNCHANGED exPc
    /\ UNCHANGED <<nhits, served, max_records, page_size, dates,
                   start_dt, end_dt, total, fetchRet, ex_candidates,
                   sessions, output>>
    /\ UNCHANGED nonExportVars

\* the loop is over: return records, total
FetchReturn ==
    /\ \/ exPc = "page" /\ start >= total
       \/ exPc = "broke"
    /\ fetchRet' = [returned |-> TRUE, records |-> fetched]
    /\ exPc' = "filter"
    /\ UNCHANGED <<nhits, served, max_records, page_size, dates,
                   start_dt, end_dt, total, start, fetched,
                   ex_candidates, sessions, output, badStatus, pages>>
    /\ UNCHANGED nonExportVars

\* the date filter over all_records and candidates.sort
Filter ==
    /\ exPc = "filter"
    /\ ex_candidates' = SortedByDate(SelectSeq(fetchRet.records, InWindow))
    /\ exPc' = "pool"
    /\ UNCHANGED <<nhits, served, max_records, page_size, dates,
                   start_dt, end_dt, total, start, fetched, fetchRet,
                   sessions, output, badStatus, pages>>
    /\ UNCHANGED nonExportVars

\* n_threads, chunk_size, chunks and the pool as a whole: one browser session
\* per chunk; range(0, 0, 0) raises when there is no candidate
RunPool ==
    /\ exPc = "pool"
    /\ IF chunk_size("monolith", Len(ex_candidates)) = 0
       THEN exPc' = "pool_raised" /\ UNCHANGED sessions
       ELSE /\ exPc' = "excel"
            /\ sessions' = Len(Slices(ex_candidates,
                                       chunk_size("monolith", Len(ex_candidates))))
    /\ UNCHANGED <<nhits, served, max_records, page_size, dates,
                   start_dt, end_dt, total, start, fetched, fetchRet,
                   ex_candidates, output, badStatus, pages>>
    /\ UNCHANGED nonExportVars

\* the DataFrames and ExcelWriter: the output file
WriteExcel ==
    /\ exPc = "excel"
    /\ output' = TRUE
    /\ exPc' = "done"
    /\ UNCHANGED <<nhits, served, max_records, page_size, dates,
                   start_dt, end_dt, total, start, fetched, fetchRet,
                   ex_candidates, sessions, badStatus, pages>>
    /\ UNCHANGED nonExportVars

ExportNext ==
    \/ Probe
    \/ Page
    \/ FetchReturn
    \/ Filter
    \/ RunPool
    \/ WriteExcel

ExportSpec == ExportInit /\ [][ExportNext]_vars

---------------------------------------------------------------------------
(* The date filter alone, on every list of dates and every window          *)

FilterInit ==
    /\ exPc = "filter"
    /\ nhits \in 0..MaxHits
    /\ served = nhits
    /\ max_records = 0
    /\ page_size = MaxPageSize
    /\ dates \in [1..nhits -> {NoDay} \cup (1..MaxDate)]
    /\ start_dt \in 1..MaxDate
    /\ end_dt \in 1..MaxDate
    /\ total = nhits
    /\ start = nhits
    /\ fetched = [i \in 1..nhits |-> i]
    /\ fetchRet = [returned |-> TRUE, records |-> fetched]
    /\ ex_candidates = <<>>
    /\ sessions = 0
    /\ output = FALSE
    /\ badStatus = FALSE
    /\ pages = <<>>
    /\ StageIdle
    /\ PoolIdle
    /\ MergeIdle
    /\ FormIdle
    /\ FnIdle
    /\ DownloadIdle
    /\ LockIdle

FilterNext ==
    \/ Filter

FilterSpec == FilterInit /\ [][FilterNext]_vars

---------------------------------------------------------------------------
(* Claims about the bounded export                                         *)

NoRequestAfterShortPage ==
    \A i \in DOMAIN pages :
        /\ pages[i].start < total
        /\ \A j \in 1..(i - 1) : pages[j].got = page_size

\* C24: the candidate list holds exactly the fetched records whose best date
\* d satisfies start <= d <= end, both bounds included, each once, newest
\* first; a record with no parseable date is never in it.
CandidatesAreWindowNewestFirst ==
    exPc = "pool" =>
        /\ \A i \in 1..Len(fetchRet.records) :
              LET n == Cardinality({k \in DOMAIN ex_candidates :
                                       ex_candidates[k] = fetchRet.records[i]})
              IN IF dates[i] # NoDay /\ start_dt <= dates[i] /\ dates[i] <= end_dt
                 THEN n = 1 ELSE n = 0
        /\ \A k \in DOMAIN ex_candidates : ex_candidates[k] \in 1..Len(fetchRet.records)
        /\ \A j, k \in DOMAIN ex_candidates :
              j < k => dates[ex_candidates[j]] >= dates[ex_candidates[k]]

\* filtered: an undated record, one on each bound of the window, one before
\* and one after it, and the sort moved the later bound record to the front
FilteredOnBothBounds ==
    /\ exPc = "pool"
    /\ start_dt < end_dt
    /\ \E i \in DOMAIN dates : dates[i] = NoDay
    /\ \E i, j \in DOMAIN dates :
          /\ i < j
          /\ dates[i] = start_dt
          /\ dates[j] = end_dt
          /\ ex_candidates = <<j, i>>
    /\ \E i \in DOMAIN dates : dates[i] # NoDay /\ dates[i] > end_dt

---------------------------------------------------------------------------
(* The input form: nihr_dialogue.get_scraper_inputs and its submit         *)

\* longest search-terms text typed into the form
MaxTermLen == 2

\* characters of the search-terms text
TermAlphabet == {" ", "a"}

TermTexts == UNION {[1..n -> TermAlphabet] : n \in 0..MaxTermLen}

\* int(text): the value, or ValueError; surrounding whitespace is ignored
int(text) ==
    IF IsIntLiteral(Strip(text)) THEN Returned(py_int(Strip(text))) ELSE Raised

\* NIHRConfig(search_terms=terms.strip(), ..., max_rows=int(entry_rows.get()), ...)
NIHRConfig(terms, rows) == [search_terms |-> Strip(terms), max_rows |-> int(rows).value]

FormInit ==
    /\ formOpen = TRUE
    /\ entry_terms \in TermTexts
    /\ entry_rows \in FileContents
    /\ result_container = <<>>
    /\ errorShown = ""
    /\ StageIdle
    /\ PoolIdle
    /\ MergeIdle
    /\ ExportIdle
    /\ FnIdle
    /\ DownloadIdle
    /\ LockIdle

\* the "Start Scrape" button: submit()
Submit ==
    /\ formOpen
    /\ IF Strip(entry_terms) = <<>>
       THEN /\ errorShown' = "Search term cannot be empty"
            /\ UNCHANGED <<formOpen, result_container>>
       ELSE IF int(entry_rows).raised
            THEN /\ errorShown' = "Max Rows must be a number."
                 /\ UNCHANGED <<formOpen, result_container>>
            ELSE /\ result_container' =
                        Append(result_container, NIHRConfig(entry_terms, entry_rows))
                 /\ formOpen' = FALSE
                 /\ UNCHANGED errorShown
    /\ UNCHANGED <<entry_terms, entry_rows>>
    /\ UNCHANGED nonFormVars

FormNext ==
    \/ Submit

FormSpec == FormInit /\ [][FormNext]_vars

\* the max-rows text is a non-negative integer
IsNonNegativeInt(text) == IsIntLiteral(Strip(text)) /\ py_int(Strip(text)) >= 0

\* C22: submit produces a configuration only when the search term is non-empty
\* after trimming and the max-rows entry is a non-negative integer; otherwise it
\* shows an error, stores no configuration and leaves the form open.
SubmitValidates ==
    /\ result_container # <<>> =>
         /\ Strip(entry_terms) # <<>>
         /\ IsNonNegativeInt(entry_rows)
    /\ (errorShown # "" \/ ~formOpen) =>
         IF Strip(entry_terms) # <<>> /\ IsNonNegativeInt(entry_rows)
         THEN result_container # <<>> /\ ~formOpen
         ELSE result_container = <<>> /\ formOpen /\ errorShown # ""

---------------------------------------------------------------------------
(* choose_best_date: the date a record is filtered and sorted by           *)

\* the date fields, in the order choose_best_date tries them
DateKeys == <<"start_date", "award_date", "end_date", "record_timestamp">>

\* field values: empty, no date at all, a plain date, a timestamp, and a
\* compact ISO date that only datetime.fromisoformat reads
DateTexts == {"", "n/a", "2020-01-01", "2021-06-01T09:00:00Z", "20210601"}

\* None, as a field value and as the result
None == "None"

\* datetime.strptime(val[:10], "%Y-%m-%d"): the day, None when it raises
strptime_day(val) ==
    CASE val = "2020-01-01" -> "2020-01-01"
      [] val = "2021-06-01T09:00:00Z" -> "2021-06-01"
      [] OTHER -> None

\* datetime.fromisoformat(val.replace("Z", "+00:00")); the compact form is
\* read from Python 3.11 on (py311) and raises before
fromisoformat(val, py311) ==
    CASE val = "2020-01-01" -> "2020-01-01"
      [] val = "2021-06-01T09:00:00Z" -> "2021-06-01"
      [] val = "20210601" /\ py311 -> "2021-06-01"
      [] OTHER -> None

\* a record's fields: (key, value) pairs in the order the API sent them
FieldPairs == {<<DateKeys[k], v>> : k \in DOMAIN DateKeys, v \in DateTexts}

Fields ==
    {f \in SeqsUpTo(FieldPairs, Len(DateKeys)) :
        \A i, j \in DOMAIN f : f[i][1] = f[j][1] => i = j}

\* fields.get(key)
fields_get(fields, key) ==
    IF \E i \in DOMAIN fields : fields[i][1] = key
    THEN fields[CHOOSE i \in DOMAIN fields : fields[i][1] = key][2]
    ELSE None

RECURSIVE choose_best_date_from(_, _, _)
choose_best_date_from(fields, py311, k) ==
    IF k > Len(DateKeys) THEN None
    ELSE LET val == fields_get(fields, DateKeys[k]) IN
         IF val = None \/ val = "" THEN choose_best_date_from(fields, py311, k + 1)
         ELSE IF strptime_day(val) # None THEN strptime_day(val)
         ELSE IF fromisoformat(val, py311) # None THEN fromisoformat(val, py311)
         ELSE choose_best_date_from(fields, py311, k + 1)

\* stops at the first field that is present, parseable or not
choose_best_date_firstPresent(fields, py311) ==
    LET present == {k \in DOMAIN DateKeys :
                       LET val == fields_get(fields, DateKeys[k]) IN val # None /\ val # ""}
        k0 == CHOOSE k \in present : \A j \in present : k <= j
        val == fields_get(fields, DateKeys[k0])
    IN IF present = {} THEN None
       ELSE IF strptime_day(val) # None THEN strptime_day(val)
       ELSE fromisoformat(val, py311)

choose_best_date(fields, py311) == choose_best_date_from(fields, py311, 1)

DateInit ==
    /\ fn = "choose_best_date"
    /\ fnPc = "call"
    /\ arg \in Fields
    /\ ret = <<>>
    /\ StageIdle
    /\ PoolIdle
    /\ MergeIdle
    /\ ExportIdle
    /\ FormIdle
    /\ DownloadIdle
    /\ LockIdle

\* one call, under either Python version
ChooseBestDate ==
    /\ fn = "choose_best_date"
    /\ fnPc = "call"
    /\ \E py311 \in BOOLEAN :
         ret' = [value |-> choose_best_date(arg, py311), py311 |-> py311]
    /\ fnPc' = "returned"
    /\ UNCHANGED <<fn, arg>>
    /\ UNCHANGED nonFnVars

DateNext ==
    \/ ChooseBestDate

DateSpec == DateInit /\ [][DateNext]_vars

\* the value a field parses to, None when it is absent, empty or unparseable
ParsedField(fields, key, py311) ==
    LET val == fields_get(fields, key) IN
    IF val = None \/ val = "" THEN None
    ELSE IF strptime_day(val) # None THEN strptime_day(val)
    ELSE fromisoformat(val, py311)

\* C23: choose_best_date returns the parsed value of the first of start_date,
\* award_date, end_date, record_timestamp that is present and parseable,
\* whatever the order of the keys in the record; an unparseable field falls
\* through to the next one, and the result is None when none is parseable.
FirstParseableDateWins ==
    (fn = "choose_best_date" /\ fnPc = "returned") =>
        LET s == ParsedField(arg, "start_date", ret.py311)
            a == ParsedField(arg, "award_date", ret.py311)
            e == ParsedField(arg, "end_date", ret.py311)
            t == ParsedField(arg, "record_timestamp", ret.py311)
        IN ret.value = IF s # None THEN s
                       ELSE IF a # None THEN a
                       ELSE IF e # None THEN e
                       ELSE t

\* a record that lists record_timestamp first and whose start_date is
\* unparseable: the award date was returned
FellThroughUnparseableStart ==
    /\ fn = "choose_best_date"
    /\ fnPc = "returned"
    /\ Len(arg) = 4
    /\ arg[1] = <<"record_timestamp", "2021-06-01T09:00:00Z">>
    /\ fields_get(arg, "start_date") = "n/a"
    /\ fields_get(arg, "award_date") = "2020-01-01"
    /\ ret.value = "2020-01-01"

---------------------------------------------------------------------------
(* scrape_award_page: the order of the protocol entries of a page          *)

\* most protocol entries on a page
MaxProtocols == 3

\* parse_month_year returned None (as a month number)
NoMonth == 0

\* datetime(y, m, 1) as a month number
MonthNo(y, m) == y * 12 + m - 1

\* the dates parse_month_year reads off the pages: "Dec 1899", "January 1900",
\* "Jan 2019", "May 2021"
ProtocolMonths == {MonthNo(1899, 12), MonthNo(1900, 1), MonthNo(2019, 1), MonthNo(2021, 5)}

\* the entries of a page in page order: entry k is [pos |-> k, date |-> ...]
ProtocolLists ==
    UNION {{[k \in 1..n |-> [pos |-> k, date |-> d[k]]] :
                d \in [1..n -> ProtocolMonths \cup {NoMonth}]} : n \in 0..MaxProtocols}

\* key=lambda d: (d["date"] or datetime(1900, 1, 1))
protocol_key(d) == IF d.date = NoMonth THEN MonthNo(1900, 1) ELSE d.date

\* protocols.sort(key=..., reverse=True): stable, largest key first
RECURSIVE InsertByKey(_, _)
InsertByKey(x, sorted) ==
    IF sorted = <<>> THEN <<x>>
    ELSE IF protocol_key(Head(sorted)) >= protocol_key(x)
         THEN <<Head(sorted)>> \o InsertByKey(x, Tail(sorted))
         ELSE <<x>> \o sorted

RECURSIVE sort_protocols(_)
sort_protocols(list) ==
    IF list = <<>> THEN <<>>
    ELSE InsertByKey(list[Len(list)], sort_protocols(SubSeq(list, 1, Len(list) - 1)))

\* the "Most Recent Protocol" columns of scrape_batch: protocols[0], with the
\* date column empty (NoMonth) when there is no protocol or it has no date
most_recent(protocols) ==
    IF protocols = <<>> THEN [pos |-> 0, date |-> NoMonth] ELSE protocols[1]

ProtocolInit ==
    /\ fn = "scrape_award_page"
    /\ fnPc = "call"
    /\ arg \in ProtocolLists
    /\ ret = <<>>
    /\ StageIdle
    /\ PoolIdle
    /\ MergeIdle
    /\ ExportIdle
    /\ FormIdle
    /\ DownloadIdle
    /\ LockIdle

\* the sort of scrape_award_page and the columns scrape_batch derives from it
SortProtocols ==
    /\ fn = "scrape_award_page"
    /\ fnPc = "call"
    /\ ret' = [protocols |-> sort_protocols(arg),
               recent |-> most_recent(sort_protocols(arg))]
    /\ fnPc' = "returned"
    /\ UNCHANGED <<fn, arg>>
    /\ UNCHANGED nonFnVars

ProtocolNext ==
    \/ SortProtocols

ProtocolSpec == ProtocolInit /\ [][ProtocolNext]_vars

\* C25: the protocol entries are ordered by date newest first with undated
\* entries last, and the reported most-recent protocol is the entry of maximal
\* date, the first in page order among equal dates; when no entry has a date
\* it is the first entry in page order, with an empty date.
NewestProtocolFirst ==
    (fn = "scrape_award_page" /\ fnPc = "returned") =>
        LET p == ret.protocols
            datedEntries == {k \in DOMAIN arg : arg[k].date # NoMonth}
        IN /\ \A j, k \in DOMAIN p :
                j < k => /\ ~(p[j].date = NoMonth /\ p[k].date # NoMonth)
                         /\ (p[j].date # NoMonth /\ p[k].date # NoMonth)
                                => p[j].date >= p[k].date
           /\ datedEntries # {} =>
                /\ \A k \in datedEntries : arg[k].date <= ret.recent.date
                /\ arg[ret.recent.pos].date = ret.recent.date
                /\ \A k \in datedEntries :
                      arg[k].date = ret.recent.date => ret.recent.pos <= k
           /\ (datedEntries = {} /\ arg # <<>>) =>
                ret.recent = [pos |-> 1, date |-> NoMonth]

---------------------------------------------------------------------------
(* gtr_scraper.scrape_project_page: the three extraction strategies        *)

\* investigator names on a page
Names == {"Ann", "Bob"}

\* what one strategy finds on the page, per role
Finds == [pis : SUBSET Names, cois : SUBSET Names]

\* a page: what the sidebar query, the People-tab query and the regular
\* expressions find on it
ProjectPages == [sidebar : Finds, people : Finds, regex : Finds]

\* pis, cois after the sidebar loop, the People-tab loop and the two regex
\* fallbacks (each guarded by "if not pis" / "if not cois")
scrape_project_page(page) ==
    LET pis  == page.sidebar.pis \cup page.people.pis
        cois == page.sidebar.cois \cup page.people.cois
    IN [pis  |-> IF pis = {} THEN page.regex.pis ELSE pis,
        cois |-> IF cois = {} THEN page.regex.cois ELSE cois]

StrategyInit ==
    /\ fn = "scrape_project_page"
    /\ fnPc = "call"
    /\ arg \in ProjectPages
    /\ ret = <<>>
    /\ StageIdle
    /\ PoolIdle
    /\ MergeIdle
    /\ ExportIdle
    /\ FormIdle
    /\ DownloadIdle
    /\ LockIdle

ScrapeProjectPage ==
    /\ fn = "scrape_project_page"
    /\ fnPc = "call"
    /\ ret' = scrape_project_page(arg)
    /\ fnPc' = "returned"
    /\ UNCHANGED <<fn, arg>>
    /\ UNCHANGED nonFnVars

StrategyNext ==
    \/ ScrapeProjectPage

StrategySpec == StrategyInit /\ [][StrategyNext]_vars

\* the output of the first of three strategies that found anything
FirstNonEmpty(a, b, c) == IF a # {} THEN a ELSE IF b # {} THEN b ELSE c

\* C26: for each role the result of scrape_project_page is the output of the
\* first strategy, in the order sidebar, People tab, regular expression, that
\* yields a non-empty set; a later strategy adds names only when every earlier
\* one yielded nothing.
FirstStrategyWins ==
    (fn = "scrape_project_page" /\ fnPc = "returned") =>
        /\ ret.pis = FirstNonEmpty(arg.sidebar.pis, arg.people.pis, arg.regex.pis)
        /\ ret.cois = FirstNonEmpty(arg.sidebar.cois, arg.people.cois, arg.regex.cois)

---------------------------------------------------------------------------
(* run_search_to_excel: the Investigator Counts sheet                      *)

\* most records in the enriched list of the sheet
MaxCountRecords == 2

\* names as scrape_award_page's pick_names returns them (stripped, non-empty
\* link texts), as sequences of characters; one of them holds a semicolon
InvestigatorNames == {<<"A", "n">>, <<"B", "o">>, <<"L", "i", ";", "W", "u">>}

\* pick_names: the names of one role on a page, without repetition
NameLists ==
    {<<>>} \cup {<<a>> : a \in InvestigatorNames}
           \cup {<<<<"A", "n">>, <<"B", "o">>>>, <<<<"B", "o">>, <<"A", "n">>>>}

\* "; ".join(names), as text
RECURSIVE join_text(_)
join_text(names) ==
    IF names = <<>> THEN <<>>
    ELSE IF Len(names) = 1 THEN names[1]
    ELSE names[1] \o <<";", " ">> \o join_text(Tail(names))

\* the investigator columns scrape_batch writes for a page
CountRow(pis, cois) ==
    [ChiefInvestigators |-> join_text(pis), NoOfPIs |-> Len(pis),
     CoInvestigators |-> join_text(cois), NoOfCoIs |-> Len(cois)]

CountRows == {CountRow(p, c) : p \in NameLists, c \in NameLists}

\* text.split(";")
RECURSIVE split_semicolon(_, _)
split_semicolon(text, cur) ==
    IF text = <<>> THEN <<cur>>
    ELSE IF Head(text) = ";" THEN <<cur>> \o split_semicolon(Tail(text), <<>>)
    ELSE split_semicolon(Tail(text), Append(cur, Head(text)))

\* [n.strip() for n in text.split(";") if n.strip()]
RECURSIVE StripAll(_)
StripAll(parts) ==
    IF parts = <<>> THEN <<>>
    ELSE IF Strip(Head(parts)) = <<>> THEN StripAll(Tail(parts))
    ELSE <<Strip(Head(parts))>> \o StripAll(Tail(parts))

names_of(text) == IF text = <<>> THEN <<>> ELSE StripAll(split_semicolon(text, <<>>))

\* all_names: both name columns of every record, in record order
RECURSIVE all_names(_)
all_names(enrichedRows) ==
    IF enrichedRows = <<>> THEN <<>>
    ELSE names_of(Head(enrichedRows).ChiefInvestigators)
         \o names_of(Head(enrichedRows).CoInvestigators)
         \o all_names(Tail(enrichedRows))

Occurrences(list, x) == Cardinality({i \in DOMAIN list : list[i] = x})

FirstIndex(list, x) == CHOOSE i \in DOMAIN list : list[i] = x /\ \A j \in 1..(i - 1) : list[j] # x

\* Counter(all_names).items(): one (name, count) pair per name, first seen first
counter_items(list) ==
    LET firsts == SelectSeq([i \in DOMAIN list |-> i], LAMBDA i : FirstIndex(list, list[i]) = i)
    IN [k \in DOMAIN firsts |->
            [name |-> list[firsts[k]], count |-> Occurrences(list, list[firsts[k]])]]

\* sorted(items, key=lambda x: x[1], reverse=True): stable, largest count first
RECURSIVE InsertByCount(_, _)
InsertByCount(x, sorted) ==
    IF sorted = <<>> THEN <<x>>
    ELSE IF Head(sorted).count >= x.count
         THEN <<Head(sorted)>> \o InsertByCount(x, Tail(sorted))
         ELSE <<x>> \o sorted

RECURSIVE sorted_by_count(_)
sorted_by_count(items) ==
    IF items = <<>> THEN <<>>
    ELSE InsertByCount(items[Len(items)], sorted_by_count(SubSeq(items, 1, Len(items) - 1)))

\* df_counts
investigator_counts(enrichedRows) == sorted_by_count(counter_items(all_names(enrichedRows)))

CountInit ==
    /\ fn = "investigator_counts"
    /\ fnPc = "call"
    /\ arg \in SeqsUpTo(CountRows, MaxCountRecords)
    /\ ret = <<>>
    /\ StageIdle
    /\ PoolIdle
    /\ MergeIdle
    /\ ExportIdle
    /\ FormIdle
    /\ DownloadIdle
    /\ LockIdle

BuildCounts ==
    /\ fn = "investigator_counts"
    /\ fnPc = "call"
    /\ ret' = investigator_counts(arg)
    /\ fnPc' = "returned"
    /\ UNCHANGED <<fn, arg>>
    /\ UNCHANGED nonFnVars

CountNext ==
    \/ BuildCounts

CountSpec == CountInit /\ [][CountNext]_vars

\* sum of No. of PIs and No. of Co-Is over the records
RECURSIVE TotalInvestigators(_)
TotalInvestigators(rows) ==
    IF rows = <<>> THEN 0
    ELSE Head(rows).NoOfPIs + Head(rows).NoOfCoIs + TotalInvestigators(Tail(rows))

RECURSIVE SumCounts(_)
SumCounts(table) == IF table = <<>> THEN 0 ELSE Head(table).count + SumCounts(Tail(table))

\* C27: the investigator-count table is ordered by count descending, equal
\* counts in first-seen order, holds each name once with the number of its
\* appearances in the two name columns, and its counts sum to the sum of
\* No. of PIs and No. of Co-Is over all records.
CountsMatchInvestigators ==
    (fn = "investigator_counts" /\ fnPc = "returned") =>
        /\ \A j, k \in DOMAIN ret :
              j < k => /\ ret[j].count >= ret[k].count
                       /\ ret[j].name # ret[k].name
                       /\ ret[j].count = ret[k].count =>
                            FirstIndex(all_names(arg), ret[j].name)
                                < FirstIndex(all_names(arg), ret[k].name)
        /\ \A k \in DOMAIN ret : ret[k].count = Occurrences(all_names(arg), ret[k].name)
        /\ SumCounts(ret) = TotalInvestigators(arg)

---------------------------------------------------------------------------
(* The sequential scraper of the protocol finder, and the two sheets       *)

\* scrape_protocol_info: records in list order until max_rows rows are found
RECURSIVE scrape_protocol_info_from(_, _, _)
scrape_protocol_info_from(list, cap, rows) ==
    IF list = <<>> \/ Len(rows) >= cap THEN rows
    ELSE LET protos == PageProtocols(Head(list), site)
         IN scrape_protocol_info_from(Tail(list), cap,
                IF protos # <<>> THEN Append(rows, ProtocolRow(Head(list), protos))
                ELSE rows)

scrape_protocol_info(simplified_records, cap) ==
    scrape_protocol_info_from(simplified_records, cap, <<>>)

\* the merge loop of run_search_to_excel over the rows of a scraper
Merged(all, rows) == [i \in DOMAIN all |-> MergedRow(all[i], IndexOf(rows))]

HasProtocol(r) == r.ProtocolCount > 0

\* sheet "All Checked": every enriched record
AllChecked(enrichedRows) == enrichedRows

\* sheet "Has Protocol Attachments": with_protocol[:max_rows]
HasProtocolAttachments(enrichedRows, cap) ==
    SubSeq(SelectSeq(enrichedRows, HasProtocol), 1,
           Min(cap, Len(SelectSeq(enrichedRows, HasProtocol))))

\* C29: for the same filtered list, the same max_rows and pages that scrape the
\* same way, the sheets 'All Checked' and 'Has Protocol Attachments' built from
\* the multithreaded scraper and the merge equal those built from the
\* sequential scraper and the merge, under every interleaving of the workers.
MultithreadedEqualsSequential ==
    (variant = "finder" /\ poolPc = "done" /\ scrapeRaised = {}) =>
        LET seqRows == Merged(candidates, scrape_protocol_info(candidates, max_rows))
        IN /\ AllChecked(enriched_records) = AllChecked(seqRows)
           /\ HasProtocolAttachments(enriched_records, max_rows)
                = HasProtocolAttachments(seqRows, max_rows)

---------------------------------------------------------------------------
(* Further claims about the static-chunk pools                             *)

\* run_gtr_search_to_excel called with one or two threads, so that a batch
\* holds several records
GtrBatchInit ==
    /\ PoolFresh
    /\ variant = "gtr"
    /\ threads \in 1..2

GtrBatchNext ==
    \/ SplitAndSubmit
    \/ \E w \in Workers : StartWorker(w)
    \/ \E w \in Workers : ScrapeItemGtr(w)
    \/ \E w \in Workers : FinishWorker(w)
    \/ \E w \in Workers : Collect(w)
    \/ PoolFinish

GtrBatchSpec == GtrBatchInit /\ [][GtrBatchNext]_vars

\* C31: in scrape_gtr_batch the Funded Value of every result row comes from
\* that row's own record or detail page; it is never the value of another
\* record of the batch, also when the scrape of the row raised.
FundedValueIsOwn ==
    variant = "gtr" =>
        \A w \in Workers : \A k \in DOMAIN wresults[w] :
            wresults[w][k].fv = FundedOf(wresults[w][k].id)

\* C32: when the date filter leaves no candidate, the split yields no chunk
\* and does not raise, no worker and no browser session is started, and the
\* run goes on to complete with an empty enriched set.
EmptyListSplitsToNothing ==
    (variant \in {"monolith", "finder"} /\ candidates = <<>> /\ poolPc # "split") =>
        /\ poolPc # "raised"
        /\ chunks = <<>>
        /\ Workers = {}
        /\ enriched = <<>>
        /\ enriched_records = <<>>

---------------------------------------------------------------------------
(* The paginated fetches: fetch_all_hits and gtr_scraper.fetch_all_hits_gtr *)

\* largest max_records handed to fetch_all_hits_gtr
MaxGtrRecords == 4

\* the projects the GtR API serves for page = p, pageSize = size
GtrItems(r, p, size) == RecordsOf(r, (p - 1) * size, size)

short_page_never(items, size) == FALSE

\* if len(items) < fetch_size: break
short_page(items, size) == Len(items) < size

Truncated_not(list, cap) == list

\* records[:max_records]
Truncated(list, cap) == SubSeq(list, 1, Min(cap, Len(list)))

\* fetch_all_hits_gtr called: page = 1, records = []; page_size stands for its
\* fetch_size (100 in the code)
GtrFetchInit ==
    /\ exPc = "gtr_page"
    /\ nhits \in 0..MaxHits
    /\ served \in 0..nhits
    /\ max_records \in 0..MaxGtrRecords
    /\ page_size \in 1..MaxPageSize
    /\ dates = <<>>
    /\ start_dt = 0
    /\ end_dt = 0
    /\ total = -1
    /\ start = 1
    /\ fetched = <<>>
    /\ fetchRet = NotReturned
    /\ ex_candidates = <<>>
    /\ sessions = 0
    /\ output = FALSE
    /\ badStatus = FALSE
    /\ pages = <<>>
    /\ StageIdle
    /\ PoolIdle
    /\ MergeIdle
    /\ FormIdle
    /\ FnIdle
    /\ DownloadIdle
    /\ LockIdle

\* one pass of "while len(records) < max_records": the request, the 400 test and
\* raise_for_status, the break on no items, records.extend, page += 1, the
\* break on a short page
GtrPage ==
    /\ exPc = "gtr_page"
    /\ Len(fetched) < max_records
    /\ \E r \in Responses :
         /\ badStatus' = (badStatus \/ r.status # 200)
         /\ pages' = Append(pages,
                [start |-> start,
                 got   |-> IF RequestRaises(r) THEN -1
                           ELSE Len(GtrItems(r, start, page_size))])
         /\ IF RequestRaises(r)
            THEN exPc' = "fetch_raised" /\ UNCHANGED <<fetched, start>>
            ELSE IF GtrItems(r, start, page_size) = <<>>
                 THEN exPc' = "gtr_broke" /\ UNCHANGED <<fetched, start>>
                 ELSE /\ fetched' = fetched \o GtrItems(r, start, page_size)
                      /\ start' = start + 1
                      /\ exPc' = IF short_page(GtrItems(r, start, page_size), page_size)
                                 THEN "gtr_broke" ELSE exPc
    /\ UNCHANGED <<nhits, served, max_records, page_size, dates, start_dt, end_dt, total,
                   fetchRet, ex_candidates, sessions, output>>
    /\ UNCHANGED nonExportVars

\* the loop is over: return records[:max_records]
GtrReturn ==
    /\ \/ exPc = "gtr_page" /\ Len(fetched) >= max_records
       \/ exPc = "gtr_broke"
    /\ fetchRet' = [returned |-> TRUE, records |-> Truncated(fetched, max_records)]
    /\ exPc' = "gtr_done"
    /\ UNCHANGED <<nhits, served, max_records, page_size, dates, start_dt, end_dt, total,
                   start, fetched, ex_candidates, sessions, output, badStatus, pages>>
    /\ UNCHANGED nonExportVars

\* either fetch, called on any API
FetchInit ==
    \/ ExportInit
    \/ GtrFetchInit

FetchNext ==
    \/ Probe
    \/ Page
    \/ FetchReturn
    \/ GtrPage
    \/ GtrReturn

FetchSpec == FetchInit /\ [][FetchNext]_vars

\* the API answered every request with 200 and serves all the records it counts
ConsistentApi == ~badStatus /\ served = nhits

\* C33: against an API that consistently serves a fixed ordered list of N
\* records and advertises total N, fetch_all_hits returns all N records in API
\* order, each once, for every N and page size; fetch_all_hits_gtr returns the
\* first min(N, max_records) of them.
FetchReturnsServedList ==
    (ConsistentApi /\ fetchRet.returned) =>
        /\ exPc = "filter" => fetchRet.records = [i \in 1..nhits |-> i]
        /\ exPc = "gtr_done" =>
              fetchRet.records = [i \in 1..Min(nhits, max_records) |-> i]

\* fetch_all_hits_gtr returned after a page took it past max_records
GtrCutToMaxRecords ==
    /\ exPc = "gtr_done"
    /\ ConsistentApi
    /\ Len(pages) = 2
    /\ Len(fetched) > max_records
    /\ Len(fetchRet.records) = max_records

\* C34: every fetch is finite whatever the API answers: fetch_all_hits issues
\* at most ceil(total / page_size) page requests after the probe,
\* fetch_all_hits_gtr at most ceil(max_records / fetch_size), and once the
\* loop is over each returns.
FetchIsBounded ==
    /\ exPc \in {"page", "broke", "filter"} => Len(pages) <= CeilDiv(total, page_size)
    /\ exPc \in {"gtr_page", "gtr_broke", "gtr_done"} =>
          Len(pages) <= CeilDiv(max_records, page_size)
    /\ exPc = "fetch_raised" =>
          Len(pages) <= Max(CeilDiv(Max(total, 0), page_size), CeilDiv(max_records, page_size))
    /\ (exPc = "page" /\ start >= total) => ENABLED FetchReturn
    /\ (exPc = "gtr_page" /\ Len(fetched) >= max_records) => ENABLED GtrReturn

\* fetch_all_hits_gtr has issued as many requests as the bound allows and every
\* page was full; fetch_all_hits has done the same against a misreporting API
FetchedToTheBound ==
    \/ /\ exPc = "gtr_done"
       /\ max_records = MaxGtrRecords
       /\ Len(pages) = CeilDiv(max_records, page_size)
       /\ Len(pages) >= 2
    \/ /\ exPc = "filter"
       /\ served < nhits
       /\ Len(pages) = CeilDiv(total, page_size)
       /\ Len(pages) >= 2

---------------------------------------------------------------------------
(* Termination of the driver pool                                          *)

---------------------------------------------------------------------------
(* Stage-2 downloader: download_file and main()                            *)

\* most records with a protocol in the input file
MaxDownloads == 3

\* most invocations of main()
MaxDlRuns == 2

\* chunks of a complete protocol file
FileChunks == 2

\* os.path.exists(local_path)
path_exists(f) == f >= 0

\* os.path.getsize(local_path)
getsize(f) == f

\* the test under which main() skips a record as already downloaded
already_exists(f) == path_exists(f) /\ getsize(f) > 0

\* the file that download_file leaves behind. opened = FALSE: requests.get or
\* raise_for_status raised, the file is untouched. Otherwise open(..., 'wb')
\* truncated it and written chunks of the body were written before the loop
\* ended (written = FileChunks) or iter_content raised (written < FileChunks)
download_file_leaves(f, opened, written) == IF opened THEN written ELSE f

DownloadInit ==
    /\ dlPc = "line"
    /\ dlRun = 1
    /\ lines \in 1..MaxDownloads
    /\ line_num = 1
    /\ files = [i \in 1..lines |-> -1]
    /\ skips = {}
    /\ StageIdle
    /\ PoolIdle
    /\ MergeIdle
    /\ ExportIdle
    /\ FormIdle
    /\ FnIdle
    /\ LockIdle

\* main(): one pass of the loop over the input lines: the skip test, else
\* download_file with whatever the server and the connection do
ProcessLine ==
    /\ dlPc = "line"
    /\ line_num <= lines
    /\ IF already_exists(files[line_num])
       THEN /\ skips' = skips \cup
                    {[run |-> dlRun, id |-> line_num, size |-> getsize(files[line_num])]}
            /\ UNCHANGED files
       ELSE /\ \E opened \in BOOLEAN, written \in 0..FileChunks :
                 files' = [files EXCEPT
                    ![line_num] = download_file_leaves(@, opened, written)]
            /\ UNCHANGED skips
    /\ line_num' = line_num + 1
    /\ UNCHANGED <<dlPc, dlRun, lines>>
    /\ UNCHANGED nonDownloadVars

\* the input is exhausted: "Download run complete."
RunComplete ==
    /\ dlPc = "line"
    /\ line_num > lines
    /\ dlPc' = "done"
    /\ UNCHANGED <<dlRun, lines, line_num, files, skips>>
    /\ UNCHANGED nonDownloadVars

\* the script is invoked again over the same input and directory
Rerun ==
    /\ dlPc = "done"
    /\ dlRun < MaxDlRuns
    /\ dlRun' = dlRun + 1
    /\ dlPc' = "line"
    /\ line_num' = 1
    /\ UNCHANGED <<lines, files, skips>>
    /\ UNCHANGED nonDownloadVars

DownloadNext ==
    \/ ProcessLine
    \/ RunComplete
    \/ Rerun

DownloadSpec == DownloadInit /\ [][DownloadNext]_vars

\* C36: after any sequence of runs, runs with a download that failed part-way
\* included, every file a run skips as already existing is a complete download
\* of its protocol: a failed download leaves no non-empty file for later runs
\* to skip.
SkippedFilesAreComplete ==
    \A s \in skips : s.size = FileChunks

---------------------------------------------------------------------------
(* The result lock: "with lock: protocol_rows.extend(local_results)" of     *)
(* scrape_protocol_info_multithreaded and "with results_lock:               *)
(* results.extend(local_results)" of scrape_protocol_info_driver_pool       *)

\* the list the workers of the pool share
Shared == IF variant = "finder" THEN protocol_rows ELSE results

\* what a worker may hold in local_results when its loop is over
LocalResults(w) == {<<>>, <<ProtocolRow(w, <<ProtocolEntry>>)>>}

acquire_unlocked(l) == TRUE

\* Lock.__enter__ returns only when no thread holds the lock
acquire(l) == l = 0

\* every worker of a pool has left its loop
LockInit ==
    /\ variant \in {"finder", "driver_pool"}
    /\ threads = IF variant = "finder" THEN FinderThreads ELSE NumDrivers
    /\ site = 0
    /\ candidates = [i \in 1..threads |-> i]
    /\ chunks = <<>>
    /\ poolPc = "running"
    /\ wstate = [w \in 1..threads |-> "leave"]
    /\ wpos = <<>>
    /\ wresults \in {f \in [1..threads -> UNION {LocalResults(w) : w \in 1..threads}] :
                        \A w \in 1..threads : f[w] \in LocalResults(w)}
    /\ wfunded = <<>>
    /\ wdriver = [w \in 1..threads |-> "open"]
    /\ wgap = <<>>
    /\ collected = {}
    /\ enriched = <<>>
    /\ scrapeRaised = {}
    /\ max_rows = threads
    /\ protocol_rows = <<>>
    /\ lateStarts = {}
    /\ task_queue = <<>>
    /\ results = <<>>
    /\ scrapeCount = <<>>
    /\ lock = 0
    /\ wsnap = [w \in 1..threads |-> <<>>]
    /\ StageIdle
    /\ MergeIdle
    /\ ExportIdle
    /\ FormIdle
    /\ FnIdle
    /\ DownloadIdle

\* with lock: the worker enters the block
LockAcquire(w) ==
    /\ wstate[w] = "leave"
    /\ acquire(lock)
    /\ lock' = w
    /\ wstate' = [wstate EXCEPT ![w] = "locked"]
    /\ UNCHANGED wsnap
    /\ UNCHANGED <<variant, site, threads, candidates, chunks, poolPc, wpos, wresults, wfunded,
                   wdriver, wgap, collected, enriched, scrapeRaised, max_rows, protocol_rows,
                   lateStarts, task_queue, results, scrapeCount>>
    /\ UNCHANGED <<stageVars, histVars, mergeVars, exportVars, formVars, fnVars, downloadVars>>

\* extend, first half: the shared list is read
ExtendRead(w) ==
    /\ wstate[w] = "locked"
    /\ wsnap' = [wsnap EXCEPT ![w] = Shared]
    /\ wstate' = [wstate EXCEPT ![w] = "write"]
    /\ UNCHANGED lock
    /\ UNCHANGED <<variant, site, threads, candidates, chunks, poolPc, wpos, wresults, wfunded,
                   wdriver, wgap, collected, enriched, scrapeRaised, max_rows, protocol_rows,
                   lateStarts, task_queue, results, scrapeCount>>
    /\ UNCHANGED <<stageVars, histVars, mergeVars, exportVars, formVars, fnVars, downloadVars>>

\* extend, second half: the list read, with local_results behind it, is stored
ExtendWrite(w) ==
    /\ wstate[w] = "write"
    /\ IF variant = "finder"
       THEN protocol_rows' = wsnap[w] \o wresults[w] /\ UNCHANGED results
       ELSE results' = wsnap[w] \o wresults[w] /\ UNCHANGED protocol_rows
    /\ wstate' = [wstate EXCEPT ![w] = "release"]
    /\ UNCHANGED lockVars
    /\ UNCHANGED <<variant, site, threads, candidates, chunks, poolPc, wpos, wresults, wfunded,
                   wdriver, wgap, collected, enriched, scrapeRaised, max_rows,
                   lateStarts, task_queue, scrapeCount>>
    /\ UNCHANGED <<stageVars, histVars, mergeVars, exportVars, formVars, fnVars, downloadVars>>

\* the with block ends: the lock is released (if this worker holds it); the
\* worker function returns
LockRelease(w) ==
    /\ wstate[w] = "release"
    /\ lock' = IF lock = w THEN 0 ELSE lock
    /\ wstate' = [wstate EXCEPT ![w] = "done"]
    /\ wdriver' = [wdriver EXCEPT ![w] = "quit"]
    /\ UNCHANGED wsnap
    /\ UNCHANGED <<variant, site, threads, candidates, chunks, poolPc, wpos, wresults, wfunded,
                   wgap, collected, enriched, scrapeRaised, max_rows, protocol_rows,
                   lateStarts, task_queue, results, scrapeCount>>
    /\ UNCHANGED <<stageVars, histVars, mergeVars, exportVars, formVars, fnVars, downloadVars>>

\* every worker has ended: the pool function returns the shared list
LockReturn ==
    /\ poolPc = "running"
    /\ \A w \in Workers : wstate[w] = "done"
    /\ poolPc' = "done"
    /\ UNCHANGED lockVars
    /\ UNCHANGED <<variant, site, threads, candidates, chunks, wstate, wpos, wresults, wfunded,
                   wdriver, wgap, collected, enriched, scrapeRaised, max_rows, protocol_rows,
                   lateStarts, task_queue, results, scrapeCount>>
    /\ UNCHANGED <<stageVars, histVars, mergeVars, exportVars, formVars, fnVars, downloadVars>>

LockNext ==
    \/ \E w \in Workers : LockAcquire(w)
    \/ \E w \in Workers : ExtendRead(w)
    \/ \E w \in Workers : ExtendWrite(w)
    \/ \E w \in Workers : LockRelease(w)
    \/ LockReturn

LockSpec == LockInit /\ [][LockNext]_vars

\* the workers inside the with block
InBlock == {w \in Workers : wstate[w] \in {"locked", "write", "release"}}

---------------------------------------------------------------------------
(* Roles in gtr_scraper.scrape_project_page: the sidebar loop, the People-  *)
(* tab loop and the two regular-expression fallbacks, entry by entry        *)

MaxEntries == 2

RECURSIVE PagesUpTo(_)

PIKeywords == {"principal investigator", "supervisor"}
CoIKeywords == {"co-investigator", "student"}

\* no keyword is a substring of another, so a lower-cased label text is
\* described by the set of keywords it contains
Labels == SUBSET (PIKeywords \cup CoIKeywords)

\* a person entry: a sidebar block (label = its h3 header) or a People-tab
\* person link (label = the link's own text); name is the link's text in
\* front of "("; lead is the keyword of the page text that stands directly in
\* front of the link's tag ("" if none), which is what the regular
\* expressions "supervisor[^<]*<[^>]*>([^<]+)</a>" and "student..." read.
\* A sidebar header is separated from its link by two tags, which the
\* expressions do not cross, so a sidebar block has no lead; a People-tab
\* link with a lead carries no label of its own here, so that the text the
\* expression captures is the name.
PersonEntries ==
    {e \in [origin : {"sidebar", "people"}, name : Names, label : Labels,
            lead : {"", "supervisor", "student"}] :
        /\ e.origin = "sidebar" => e.lead = ""
        /\ (e.origin = "people" /\ e.lead # "") => e.label = {}}

\* the pages of n entries or fewer
PagesUpTo(n) ==
    IF n = 0 THEN {{}}
    ELSE LET smaller == PagesUpTo(n - 1)
         IN smaller \cup {p \cup {e} : p \in smaller, e \in PersonEntries}

RolePages == PagesUpTo(MaxEntries)

\* the if / elif of the sidebar loop: an entry with no keyword is passed over
sidebar_role(label) ==
    IF label \cap PIKeywords # {} THEN "pi"
    ELSE IF label \cap CoIKeywords # {} THEN "coi"
    ELSE "none"

\* the if / elif / else of the People-tab loop
people_role(label) ==
    IF label \cap PIKeywords # {} THEN "pi"
    ELSE IF label \cap CoIKeywords # {} THEN "coi"
    ELSE "coi"

loop_role(e) == IF e.origin = "sidebar" THEN sidebar_role(e.label) ELSE people_role(e.label)

\* pis, cois at the return of scrape_project_page
assign_roles(page) ==
    LET pis  == {e.name : e \in {x \in page : loop_role(x) = "pi"}}
        cois == {e.name : e \in {x \in page : loop_role(x) = "coi"}}
        supervisors == {e.name : e \in {x \in page : x.lead = "supervisor"}}
        students == {e.name : e \in {x \in page : x.lead = "student"}}
    IN [pis  |-> IF pis = {} THEN supervisors ELSE pis,
        cois |-> IF cois = {} THEN students ELSE cois]

RoleInit ==
    /\ fn = "assign_roles"
    /\ fnPc = "call"
    /\ arg \in RolePages
    /\ ret = <<>>
    /\ StageIdle
    /\ PoolIdle
    /\ MergeIdle
    /\ ExportIdle
    /\ FormIdle
    /\ DownloadIdle
    /\ LockIdle

AssignRoles ==
    /\ fn = "assign_roles"
    /\ fnPc = "call"
    /\ ret' = assign_roles(arg)
    /\ fnPc' = "returned"
    /\ UNCHANGED <<fn, arg>>
    /\ UNCHANGED nonFnVars

RoleNext ==
    \/ AssignRoles

RoleSpec == RoleInit /\ [][RoleNext]_vars

\* some entry of the page carries a PI keyword for this name
LabelledPI(page, name) == \E e \in page : e.name = name /\ e.label \cap PIKeywords # {}

\* C38: a person entry whose label text contains 'principal investigator' or
\* 'supervisor' is assigned the PI role, otherwise one whose label contains
\* 'co-investigator' or 'student' the co-investigator role; a People-tab
\* person link whose text contains none of the keywords is assigned the
\* co-investigator role and never the PI role.
RoleFollowsLabel ==
    (fn = "assign_roles" /\ fnPc = "returned") =>
        \A e \in arg :
            /\ e.label \cap PIKeywords # {} => e.name \in ret.pis
            /\ (e.label \cap PIKeywords = {} /\ e.label \cap CoIKeywords # {}) =>
                  e.name \in ret.cois
            /\ (e.origin = "people" /\ e.label = {}) =>
                  /\ e.name \in ret.cois
                  /\ e.name \in ret.pis => LabelledPI(arg, e.name)

\* the same without the last conjunct: what the two loops do on their own
LoopsFollowLabel ==
    (fn = "assign_roles" /\ fnPc = "returned") =>
        \A e \in arg :
            /\ e.label \cap PIKeywords # {} => e.name \in ret.pis
            /\ (e.label \cap PIKeywords = {} /\ e.label \cap CoIKeywords # {}) =>
                  e.name \in ret.cois
            /\ (e.origin = "people" /\ e.label = {}) => e.name \in ret.cois


=============================================================================
